---- MODULE Spec2Model ----
(***************************************************************************)
(* A model of the bobbin-tlv wire-protocol stack: the COBS frame codec     *)
(* (cobs/src/lib.rs), its streaming Writer and Reader, and the LEB128      *)
(* variable-length integer codec (leb128/src/lib.rs), the tag-length-value *)
(* codec (tlv/src/lib.rs) and the control protocol (sctl/src/lib.rs).      *)
(*                                                                         *)
(* Byte slices are sequences of numbers in 0..255.  Rust indexes from 0,   *)
(* TLA+ sequences from 1: At and Put do the translation, so that the       *)
(* index arithmetic below is the arithmetic of the source.                 *)
(***************************************************************************)
EXTENDS Integers, Sequences, FiniteSets, TLC

VARIABLES
    c_pc,       \* codec harness: "start", "encoded", "decoded", "framed"
    c_src,      \* codec harness: the slice handed to encode
    c_enc,      \* codec harness: the result of encode
    c_dec,      \* codec harness: the result of decode
    c_frm,      \* codec harness: a cobs::Writer after one encode_packet
    s_pc,       \* stream: "write", "feed", "drain", "done"
    w,          \* stream: the cobs::Writer (buf, pos)
    w_ret,      \* stream: the last encode_packet call and what it returned
    sent,       \* stream: the payloads written so far, in order
    wire,       \* stream: the bytes that travel from the Writer to the Reader
    s_bad,      \* stream: the frame damaged in transit, 0 if none
    r_fill,     \* stream: the byte the Reader's buffer was filled with
    r,          \* stream: the cobs::Reader (buf, head, tail)
    r_dst,      \* stream: the caller's destination buffer
    fed,        \* stream: the number of bytes of wire copied into the Reader
    feeds,      \* stream: the number of chunks copied so far (2: two or more)
    compacted,  \* stream: compact() has been called
    r_ret,      \* stream: what the last decode_packet call returned
    out,        \* stream: the frames and errors decode_packet returned, in order
    l_pc,       \* varint: "write", "read"
    overflow_checks, \* varint: the build panics on arithmetic overflow
    lw,         \* varint: the leb128::Writer (buf, pos)
    l_wret,     \* varint: the last write and what it returned
    l_items,    \* varint: the values written so far, with their positions
    lr,         \* varint: the leb128::Reader (buf, pos)
    l_reads,    \* varint: the reads made so far and what they returned
    t_pc,       \* tlv: "write", "failed", "read", "done", "panicked"
    t_width,    \* tlv: the width N of the length fields, in bits
    tw,         \* tlv: the tlv::Writer (buf, pos)
    t_wret,     \* tlv: the last write and what it returned
    t_items,    \* tlv: the records written so far, with their positions
    tr,         \* tlv: the tlv::Reader (buf, pos)
    t_reads,    \* tlv: the reads made so far and what they returned
    x_pc,       \* sctl: "write", "failed", "encoded", "lost", "read", ...
    xw,         \* sctl: the sctl::Writer (buf, pos)
    x_wret,     \* sctl: the last message call and what it returned
    x_sent,     \* sctl: the messages written so far, in order
    x_frame,    \* sctl: what Writer::encode returned
    x_via,      \* sctl: where the Reader's bytes came from
    xr,         \* sctl: the sctl::Reader (buf, len, pos)
    x_out       \* sctl: what the calls of Reader::read returned, in order

codec_vars == <<c_pc, c_src, c_enc, c_dec, c_frm>>

stream_vars == <<s_pc, w, w_ret, sent, wire, s_bad, r_fill, r, r_dst, fed,
                 feeds, compacted, r_ret, out>>

leb_vars == <<l_pc, overflow_checks, lw, l_wret, l_items, lr, l_reads>>

tlv_vars == <<t_pc, t_width, tw, t_wret, t_items, tr, t_reads>>

sctl_vars == <<x_pc, xw, x_wret, x_sent, x_frame, x_via, xr, x_out>>

vars == <<codec_vars, stream_vars, leb_vars, tlv_vars, sctl_vars>>

-----------------------------------------------------------------------------
(* Bounds                                                                  *)

\* Longest input drawn exhaustively from the small alphabet.
MaxLen == 3

\* Capacity of the streaming Writer's buffer.
WCap == 8

\* Number of encode_packet calls made on the streaming Writer.
MaxWrites == 2

\* Bytes of the Reader's buffer beyond the longest stream.
RSlack == 1

\* Capacity of the Reader's buffer.
RCap == WCap + RSlack

\* Capacity of the leb128::Writer's buffer.
LebCap == 6

\* Number of write calls made on the leb128::Writer.
MaxVals == 2

-----------------------------------------------------------------------------
(* Slices                                                                  *)

At(s, i) == s[i + 1]

Put(s, i, v) == [s EXCEPT ![i + 1] = v]

\* s[a..b] of the source: indices a, a+1, ..., b-1.
Slice(s, a, b) == SubSeq(s, a + 1, b)

\* [b; n]
Fill(n, b) == SubSeq([i \in 1..n |-> b], 1, n)

\* Results of the codec functions.  A fault is an index out of range, which
\* Rust turns into a panic.
Ok(n, dst) == [kind |-> "Ok", err |-> "", n |-> n, dst |-> dst]

Err(e, dst) == [kind |-> "Err", err |-> e, n |-> 0, dst |-> dst]

Fault(dst) == [kind |-> "Panic", err |-> "index", n |-> 0, dst |-> dst]

NoResult == [kind |-> "None", err |-> "", n |-> 0, dst |-> <<>>]

\* e, once v has been computed: the loops below compute the state after the
\* first half of their passes before they start the second half, which
\* keeps the evaluation shallow.
Then(v, e) == IF v = v THEN e ELSE e

-----------------------------------------------------------------------------
(* cobs::encode                                                            *)

\* The group is closed when code reaches 0xff (mutants: one byte later,
\* and at half the size).
GroupFullLate(code) == code = 256

GroupFullEarly(code) == code = 128

GroupFull(code) == code = 255

\* One pass through the body of the while loop of encode.  st holds the
\* local variables dst, p, d, cp, code; st.ret is the value returned from
\* inside the loop, NoResult while the loop is running.
encode_body(src, st) ==
    IF st.ret.kind # "None" \/ ~(st.p < Len(src))
    THEN st
    ELSE IF At(src, st.p) = 0
         THEN IF st.cp >= Len(st.dst)
              THEN [st EXCEPT !.ret = Err("DestTooShort", st.dst)]
              ELSE [st EXCEPT !.dst = Put(st.dst, st.cp, st.code),
                              !.cp = st.d,
                              !.d = st.d + 1,
                              !.code = 1,
                              !.p = st.p + 1]
         ELSE IF st.d >= Len(st.dst)
              THEN [st EXCEPT !.ret = Err("DestTooShort", st.dst)]
              ELSE LET dst1 == Put(st.dst, st.d, At(src, st.p))
                       d1 == st.d + 1
                       code1 == st.code + 1
                   IN  IF GroupFull(code1)
                       THEN IF st.cp >= Len(st.dst)
                            THEN [st EXCEPT !.ret = Err("DestTooShort", dst1)]
                            ELSE [st EXCEPT !.dst = Put(dst1, st.cp, code1),
                                            !.cp = d1,
                                            !.d = d1 + 1,
                                            !.code = 1,
                                            !.p = st.p + 1]
                       ELSE [st EXCEPT !.dst = dst1,
                                       !.d = d1,
                                       !.code = code1,
                                       !.p = st.p + 1]

\* n passes through the loop body.
RECURSIVE encode_loop(_, _, _)
encode_loop(src, st, n) ==
    IF n = 0 THEN st
    ELSE IF n = 1 THEN encode_body(src, st)
    ELSE LET half == encode_loop(src, st, n \div 2)
         IN  Then(half, encode_loop(src, half, n - (n \div 2)))

\* The final header write (mutant: the last header is left out of the
\* returned length).
encode_finish_short(st) ==
    IF st.ret.kind # "None"
    THEN st.ret
    ELSE IF st.cp >= Len(st.dst)
         THEN Err("DestTooShort", st.dst)
         ELSE Ok(IF st.cp = st.d - 1 /\ st.d > 1 THEN st.d - 1 ELSE st.d,
                 Put(st.dst, st.cp, st.code))

\* (mutant: the last header is written without the check of its index)
encode_finish_lax(st) ==
    IF st.ret.kind # "None"
    THEN st.ret
    ELSE Ok(st.d, IF st.cp < Len(st.dst) THEN Put(st.dst, st.cp, st.code)
                  ELSE st.dst)

encode_finish(st) ==
    IF st.ret.kind # "None"
    THEN st.ret
    ELSE IF st.cp >= Len(st.dst)
         THEN Err("DestTooShort", st.dst)
         ELSE Ok(st.d, Put(st.dst, st.cp, st.code))

encode(src, dst) ==
    encode_finish(
        encode_loop(src,
                    [dst |-> dst, p |-> 0, d |-> 1, cp |-> 0, code |-> 1,
                     ret |-> NoResult],
                    Len(src)))

-----------------------------------------------------------------------------
(* cobs::decode                                                            *)

\* One pass through the body of the inner while loop of decode, which
\* copies the literal bytes of a group.  st holds dst, s, d, i.
\* (mutant: a zero among the literal bytes is copied like any other byte)
decode_copy_body_unchecked(src, code, st) ==
    IF st.ret.kind # "None" \/ ~(st.i < code)
    THEN st
    ELSE IF st.s >= Len(src) \/ st.d >= Len(st.dst)
         THEN [st EXCEPT !.ret = Fault(st.dst)]
         ELSE [st EXCEPT !.dst = Put(st.dst, st.d, At(src, st.s)),
                         !.d = st.d + 1,
                         !.s = st.s + 1,
                         !.i = st.i + 1]

decode_copy_body(src, code, st) ==
    IF st.ret.kind # "None" \/ ~(st.i < code)
    THEN st
    ELSE IF st.s >= Len(src)
         THEN [st EXCEPT !.ret = Fault(st.dst)]
         ELSE IF At(src, st.s) = 0
              THEN [st EXCEPT !.ret = Err("UnexpectedNull", st.dst)]
              ELSE IF st.d >= Len(st.dst)
                   THEN [st EXCEPT !.ret = Fault(st.dst)]
                   ELSE [st EXCEPT !.dst = Put(st.dst, st.d, At(src, st.s)),
                                   !.d = st.d + 1,
                                   !.s = st.s + 1,
                                   !.i = st.i + 1]

RECURSIVE decode_copy(_, _, _, _)
decode_copy(src, code, st, n) ==
    IF n = 0 THEN st
    ELSE IF n = 1 THEN decode_copy_body(src, code, st)
    ELSE LET half == decode_copy(src, code, st, n \div 2)
         IN  Then(half, decode_copy(src, code, half, n - (n \div 2)))

\* A zero is emitted after a group unless the group is a full one (0xFF)
\* or the last one (mutant: also after the last one).
EmitsZeroAlways(code, s, len) == code # 255

EmitsZero(code, s, len) == code # 255 /\ s # len

\* One pass through the body of the outer while loop of decode.
decode_body(src, st) ==
    IF st.ret.kind # "None" \/ ~(st.s < Len(src))
    THEN st
    ELSE LET code == At(src, st.s)
         IN  IF code = 0
             THEN [st EXCEPT !.ret = Err("UnexpectedNull", st.dst)]
             ELSE IF st.s + code > Len(src) /\ code # 1
                  THEN [st EXCEPT !.ret = Err("SourceTooShort", st.dst)]
                  ELSE LET c == decode_copy(src, code,
                                            [st EXCEPT !.s = st.s + 1, !.i = 1],
                                            code - 1)
                       IN  IF c.ret.kind # "None"
                           THEN c
                           ELSE IF EmitsZero(code, c.s, Len(src))
                                THEN IF c.d >= Len(c.dst)
                                     THEN [c EXCEPT !.ret = Fault(c.dst)]
                                     ELSE [c EXCEPT !.dst = Put(c.dst, c.d, 0),
                                                    !.d = c.d + 1]
                                ELSE c

RECURSIVE decode_loop(_, _, _)
decode_loop(src, st, n) ==
    IF n = 0 THEN st
    ELSE IF n = 1 THEN decode_body(src, st)
    ELSE LET half == decode_loop(src, st, n \div 2)
         IN  Then(half, decode_loop(src, half, n - (n \div 2)))

\* The destination check at the head of decode (mutant: off by one).
DestCheckStrict(src, dst) == Len(dst) < Len(src)

DestCheck(src, dst) == Len(dst) + 1 < Len(src)

decode(src, dst) ==
    IF DestCheck(src, dst)
    THEN Err("DestTooShort", dst)
    ELSE LET st == decode_loop(src,
                               [dst |-> dst, s |-> 0, d |-> 0, i |-> 0,
                                ret |-> NoResult],
                               Len(src))
         IN  IF st.ret.kind # "None" THEN st.ret ELSE Ok(st.d, st.dst)

-----------------------------------------------------------------------------
(* cobs::Writer                                                            *)

Writer_new(buf) == [buf |-> buf, pos |-> 0]

Writer_cap(wr) == Len(wr.buf)

Writer_remaining(wr) == Writer_cap(wr) - wr.pos

Writer_as_ref(wr) == Slice(wr.buf, 0, wr.pos)

\* The room check of encode_packet (mutant: the terminator is forgotten).
NoRoomForgetsTerminator(wr, n) == wr.pos + n > Len(wr.buf)

NoRoom(wr, n) == wr.pos + n + 1 > Len(wr.buf)

\* How far encode_packet advances pos (mutant: not past the terminator).
AdvanceShort(n) == n

Advance(n) == n + 1

\* Writer::encode_packet.  encode works on &mut buf[pos..], so what it
\* wrote before failing stays in the buffer.
encode_packet(wr, src) ==
    LET e == encode(src, Slice(wr.buf, wr.pos, Len(wr.buf)))
        buf1 == Slice(wr.buf, 0, wr.pos) \o e.dst
    IN  IF e.kind # "Ok"
        THEN [w |-> [wr EXCEPT !.buf = buf1], kind |-> e.kind, err |-> e.err,
              n |-> 0]
        ELSE IF NoRoom(wr, e.n)
             THEN [w |-> [wr EXCEPT !.buf = buf1], kind |-> "Err",
                   err |-> "DestTooShort", n |-> 0]
             ELSE [w |-> [buf |-> Put(buf1, wr.pos + e.n, 0),
                          pos |-> wr.pos + Advance(e.n)],
                   kind |-> "Ok", err |-> "", n |-> e.n + 1]

-----------------------------------------------------------------------------
(* cobs::Reader                                                            *)

Reader_new(buf) == [buf |-> buf, head |-> 0, tail |-> 0]

Reader_remaining(rd) == Len(rd.buf) - rd.tail

Reader_extend(rd, len) == [rd EXCEPT !.tail = rd.tail + len]

Reader_compact(rd) ==
    IF rd.head = rd.tail
    THEN [rd EXCEPT !.head = 0, !.tail = 0]
    ELSE rd

\* The range next_null scans (mutant: only the buffered bytes, as
\* Buffer::next_null of buffer.rs does).
ScanEndTail(rd) == rd.tail

ScanEnd(rd) == Len(rd.buf)

\* Reader::next_null: the first index from head on that holds a zero,
\* -1 for None.
next_null(rd) ==
    LET zeros == {i \in rd.head..(ScanEnd(rd) - 1) : At(rd.buf, i) = 0}
    IN  IF zeros = {}
        THEN -1
        ELSE CHOOSE i \in zeros : \A j \in zeros : i <= j

\* Where decode_packet leaves head (mutant: on the terminator).
HeadAfterOnNull(nn) == nn

HeadAfter(nn) == nn + 1

\* Mutant of decode_packet: head moves only when decode succeeds.
decode_packet_keeps_bad_frame(rd, dst) ==
    IF rd.head = rd.tail
    THEN [r |-> rd, dst |-> dst, kind |-> "None", err |-> "", n |-> 0]
    ELSE LET nn == next_null(rd)
         IN  IF nn # -1
             THEN LET buf == Slice(rd.buf, rd.head, nn)
                      res == decode(buf, dst)
                  IN  [r |-> IF res.kind = "Ok"
                             THEN [rd EXCEPT !.head = nn + 1]
                             ELSE [rd EXCEPT !.head = nn],
                       dst |-> res.dst,
                       kind |-> IF res.kind = "Ok" THEN "Some" ELSE res.kind,
                       err |-> res.err,
                       n |-> res.n]
             ELSE [r |-> rd, dst |-> dst, kind |-> "None", err |-> "", n |-> 0]

\* Reader::decode_packet.  kind is "None" for Ok(None), "Some" for
\* Ok(Some(n)), "Err" for Err(err).
decode_packet(rd, dst) ==
    IF rd.head = rd.tail
    THEN [r |-> rd, dst |-> dst, kind |-> "None", err |-> "", n |-> 0]
    ELSE LET nn == next_null(rd)
         IN  IF nn # -1
             THEN LET buf == Slice(rd.buf, rd.head, nn)
                      res == decode(buf, dst)
                  IN  [r |-> [rd EXCEPT !.head = HeadAfter(nn)],
                       dst |-> res.dst,
                       kind |-> IF res.kind = "Ok" THEN "Some" ELSE res.kind,
                       err |-> res.err,
                       n |-> res.n]
             ELSE [r |-> rd, dst |-> dst, kind |-> "None", err |-> "", n |-> 0]

-----------------------------------------------------------------------------
(* 32-bit values.  A u32 or i32 is its bit pattern, held as two 16-bit     *)
(* halves; an i32 is the pattern of its two's complement.                  *)

U32(hi, lo) == [hi |-> hi, lo |-> lo]

Zero32 == U32(0, 0)

\* -1 as i32
MinusOne32 == U32(65535, 65535)

\* a | b on non-negative numbers
RECURSIVE BitOr(_, _)
BitOr(a, b) ==
    IF a = 0 THEN b
    ELSE IF b = 0 THEN a
    ELSE (IF a % 2 = 1 \/ b % 2 = 1 THEN 1 ELSE 0)
         + 2 * BitOr(a \div 2, b \div 2)

\* a & b on non-negative numbers
RECURSIVE BitAnd(_, _)
BitAnd(a, b) ==
    IF a = 0 \/ b = 0 THEN 0
    ELSE (IF a % 2 = 1 /\ b % 2 = 1 THEN 1 ELSE 0)
         + 2 * BitAnd(a \div 2, b \div 2)

Or32(x, y) == U32(BitOr(x.hi, y.hi), BitOr(x.lo, y.lo))

\* value >> 7 on a u32
Shr7(v) == U32(v.hi \div 128, (v.lo \div 128) + (v.hi % 128) * 512)

\* value >> 7 on an i32: the sign bit is copied into the vacated bits
Sar7(v) ==
    U32((v.hi \div 128) + (IF v.hi >= 32768 THEN 65024 ELSE 0),
        (v.lo \div 128) + (v.hi % 128) * 512)

\* (x as u32) << k for a 7-bit x and k < 32; the bits shifted beyond bit 31
\* are lost
Shl32(x, k) ==
    IF k < 16
    THEN U32((x * 2^k) \div 65536, (x * 2^k) % 65536)
    ELSE U32((x * 2^(k - 16)) % 65536, 0)

\* ((1 << shift) as i32).wrapping_neg() for shift < 32
NegPow2(shift) ==
    IF shift < 16
    THEN U32(65535, 65536 - 2^shift)
    ELSE U32(65536 - 2^(shift - 16), 0)

\* The number of significant bits of a byte.
RECURSIVE BitLen(_)
BitLen(b) == IF b = 0 THEN 0 ELSE 1 + BitLen(b \div 2)

\* core::intrinsics::ctlz on a u8
ctlz(b) == 8 - BitLen(b)

-----------------------------------------------------------------------------
(* leb128::Writer                                                          *)

\* value as u8 & 0b0111_1111 (mutant: the mask keeps the eighth bit)
Low8(value) == value.lo % 256

Low7(value) == value.lo % 128

\* The result of a write: the Writer after the call and Ok(()) or Err(err).
WriteOk(wr) == [w |-> wr, kind |-> "Ok", err |-> ""]

WriteErr(wr, e) == [w |-> wr, kind |-> "Err", err |-> e]

\* Writer::write_u32
RECURSIVE write_u32(_, _)
write_u32(wr, value) ==
    LET b0 == Low7(value)
        value1 == Shr7(value)
        b == IF value1 # Zero32 THEN BitOr(b0, 128) ELSE b0
    IN  IF Writer_remaining(wr) < 1
        THEN WriteErr(wr, "BufferTooShort")
        ELSE LET wr1 == [buf |-> Put(wr.buf, wr.pos, b), pos |-> wr.pos + 1]
             IN  IF value1 = Zero32
                 THEN WriteOk(wr1)
                 ELSE write_u32(wr1, value1)

\* The test that ends write_i32: what is left of the value is its sign
\* (mutant: the sign bit of the group is not looked at).
LastGroupIgnoresSign(value1, b) == value1 = Zero32 \/ value1 = MinusOne32

LastGroup(value1, b) ==
    \/ value1 = Zero32 /\ BitAnd(b, 64) = 0
    \/ value1 = MinusOne32 /\ BitAnd(b, 64) # 0

\* Writer::write_i32
RECURSIVE write_i32(_, _)
write_i32(wr, value) ==
    LET b0 == Low7(value)
        value1 == Sar7(value)
        more == ~LastGroup(value1, b0)
        b == IF more THEN BitOr(b0, 128) ELSE b0
    IN  IF Writer_remaining(wr) < 1
        THEN WriteErr(wr, "BufferTooShort")
        ELSE LET wr1 == [buf |-> Put(wr.buf, wr.pos, b), pos |-> wr.pos + 1]
             IN  IF ~more
                 THEN WriteOk(wr1)
                 ELSE write_i32(wr1, value1)

-----------------------------------------------------------------------------
(* leb128::Reader                                                          *)

LebReader_new(buf) == [buf |-> buf, pos |-> 0]

LebReader_remaining(rd) == Len(rd.buf) - rd.pos

\* The result of a read: the Reader after the call and Ok(None),
\* Ok(Some(v)), Err(err) or a panic.
ReadNone(rd) == [r |-> rd, kind |-> "None", err |-> "", v |-> Zero32]

ReadSome(rd, v) == [r |-> rd, kind |-> "Some", err |-> "", v |-> v]

ReadErr(rd, e) == [r |-> rd, kind |-> "Err", err |-> e, v |-> Zero32]

ReadPanic(rd, e) == [r |-> rd, kind |-> "Panic", err |-> e, v |-> Zero32]

\* The range check of read_u32 (mutant: one bit short).
FitsU32Strict(size) == size < 32

FitsU32(size) == size <= 32

\* The loop of read_u32 and the check that follows it.  A shift by 32 or
\* more panics in a build with overflow checks and otherwise shifts by
\* shift mod 32.  (shift is a u8; it cannot overflow in a buffer shorter
\* than 36 bytes.)
RECURSIVE read_u32_loop(_, _, _, _)
read_u32_loop(rd, result, shift, checks) ==
    IF LebReader_remaining(rd) = 0
    THEN ReadNone(rd)
    ELSE LET b == At(rd.buf, rd.pos)
         IN  IF shift >= 32 /\ checks
             THEN ReadPanic(rd, "shift left with overflow")
             ELSE LET result1 == Or32(result, Shl32(BitAnd(b, 127), shift % 32))
                      shift1 == shift + 7
                      rd1 == [rd EXCEPT !.pos = rd.pos + 1]
                  IN  IF BitAnd(b, 128) = 0
                      THEN LET size == shift1 + 1 - ctlz(At(rd1.buf, rd1.pos - 1))
                           IN  IF ~FitsU32(size)
                               THEN ReadErr(rd1, "OutOfRange")
                               ELSE ReadSome(rd1, result1)
                      ELSE read_u32_loop(rd1, result1, shift1, checks)

\* Reader::read_u32
read_u32(rd, checks) == read_u32_loop(rd, Zero32, 0, checks)

\* The sign extension test of read_i32 (mutant: never).
SignExtendsNever(shift, last_byte) == FALSE

SignExtends(shift, last_byte) == shift < 32 /\ BitAnd(last_byte, 64) # 0

\* What follows the loop of read_i32.
read_i32_finish(rd, result, shift) ==
    LET last_byte == At(rd.buf, rd.pos - 1)
        size == IF BitAnd(last_byte, 64) = 0
                THEN shift + 1 - ctlz(last_byte)
                ELSE shift + 2 - ctlz(255 - BitOr(last_byte, 128))
    IN  IF ~(size <= 32)
        THEN ReadErr(rd, "OutOfRange")
        ELSE IF SignExtends(shift, last_byte)
             THEN ReadSome(rd, Or32(result, NegPow2(shift)))
             ELSE ReadSome(rd, result)

\* The loop of read_i32.
RECURSIVE read_i32_loop(_, _, _, _)
read_i32_loop(rd, result, shift, checks) ==
    IF LebReader_remaining(rd) = 0
    THEN ReadNone(rd)
    ELSE LET b == At(rd.buf, rd.pos)
         IN  IF shift >= 32 /\ checks
             THEN ReadPanic(rd, "shift left with overflow")
             ELSE LET result1 == Or32(result, Shl32(BitAnd(b, 127), shift % 32))
                      shift1 == shift + 7
                      rd1 == [rd EXCEPT !.pos = rd.pos + 1]
                  IN  IF BitAnd(b, 128) = 0
                      THEN read_i32_finish(rd1, result1, shift1)
                      ELSE read_i32_loop(rd1, result1, shift1, checks)

\* Reader::read_i32
read_i32(rd, checks) == read_i32_loop(rd, Zero32, 0, checks)

-----------------------------------------------------------------------------
(* tlv::Writer.  A length handed to write_u8, write_u16 or write_u32 is    *)
(* a number below 2^31; the bytes of BigEndian::write_u16 and write_u32    *)
(* are those of the byteorder crate.                                       *)

\* The greatest length a one-byte and a two-byte length field can hold.
Lim8 == 2^8 - 1

Lim16 == 2^16 - 1

TlvWriter_new(buf) == [buf |-> buf, pos |-> 0]

TlvWriter_remaining(wr) == Len(wr.buf) - wr.pos

TlvWriter_as_ref(wr) == Slice(wr.buf, 0, wr.pos)

TlvWriter_as_mut(wr) == Slice(wr.buf, wr.pos, Len(wr.buf))

\* The result of a write: the Writer after the call and Ok(n), Err(err) or
\* a panic.
TlvOk(wr, n) == [w |-> wr, kind |-> "Ok", err |-> "", n |-> n]

TlvErr(wr, e) == [w |-> wr, kind |-> "Err", err |-> e, n |-> 0]

TlvPanic(wr, e) == [w |-> wr, kind |-> "Panic", err |-> e, n |-> 0]

\* a? + b, where b is the result of the call made after a
Plus(a, b) == IF b.kind = "Ok" THEN TlvOk(b.w, a.n + b.n) ELSE b

\* buf[pos..pos + value.len()].copy_from_slice(value)
CopyInto(buf, pos, value) ==
    SubSeq(buf, 1, pos) \o value \o SubSeq(buf, pos + Len(value) + 1, Len(buf))

\* Writer::write_tag.  The leb128::Writer works on the bytes at and after
\* pos and leaves there what it wrote before it failed.
write_tag(wr, tag) ==
    LET res == write_u32(Writer_new(TlvWriter_as_mut(wr)), tag)
        buf1 == TlvWriter_as_ref(wr) \o res.w.buf
    IN  IF res.kind = "Err"
        THEN TlvErr([wr EXCEPT !.buf = buf1], res.err)
        ELSE TlvOk([buf |-> buf1, pos |-> wr.pos + res.w.pos], res.w.pos)

\* Writer::write_u8
write_u8(wr, value) ==
    IF TlvWriter_remaining(wr) < 1
    THEN TlvErr(wr, "BufferTooShort")
    ELSE TlvOk([buf |-> Put(wr.buf, wr.pos, value), pos |-> wr.pos + 1], 1)

\* Writer::write_u16 with the low byte first (mutant)
write_u16_le(wr, value) ==
    IF TlvWriter_remaining(wr) < 2
    THEN TlvErr(wr, "BufferTooShort")
    ELSE TlvOk([buf |-> CopyInto(wr.buf, wr.pos,
                                 <<value % 256, value \div 256>>),
                pos |-> wr.pos + 2], 2)

\* Writer::write_u16
write_u16(wr, value) ==
    IF TlvWriter_remaining(wr) < 2
    THEN TlvErr(wr, "BufferTooShort")
    ELSE TlvOk([buf |-> CopyInto(wr.buf, wr.pos,
                                 <<value \div 256, value % 256>>),
                pos |-> wr.pos + 2], 2)

\* The room Writer::write_u32 asks for before it writes four bytes.
RoomForU32 == 2

\* Writer::write_u32.  BigEndian::write_u32 panics on a slice shorter than
\* four bytes.
tlv_write_u32(wr, value) ==
    IF TlvWriter_remaining(wr) < RoomForU32
    THEN TlvErr(wr, "BufferTooShort")
    ELSE IF TlvWriter_remaining(wr) < 4
    THEN TlvPanic(wr, "index")
    ELSE TlvOk([buf |-> CopyInto(wr.buf, wr.pos,
                                 <<value \div 2^24, (value \div 2^16) % 256,
                                   (value \div 2^8) % 256, value % 256>>),
                pos |-> wr.pos + 4], 4)

\* Writer::write
tlv_write(wr, value) ==
    IF TlvWriter_remaining(wr) < Len(value)
    THEN TlvErr(wr, "BufferTooShort")
    ELSE TlvOk([buf |-> CopyInto(wr.buf, wr.pos, value),
                pos |-> wr.pos + Len(value)], Len(value))

\* len >> 8 != 0 (mutant: a length of 256 passes)
TooLong8Late(len) == len \div 2^8 > 1

TooLong8(len) == len \div 2^8 # 0

\* len >> 16 != 0
TooLong16(len) == len \div 2^16 # 0

\* Writer::write_lv8
write_lv8(wr, value) ==
    IF TooLong8(Len(value))
    THEN TlvErr(wr, "OutOfRange")
    ELSE LET a == write_u8(wr, Len(value) % 2^8)
         IN  IF a.kind # "Ok" THEN a ELSE Plus(a, tlv_write(a.w, value))

\* Writer::write_lv16
write_lv16(wr, value) ==
    IF TooLong16(Len(value))
    THEN TlvErr(wr, "OutOfRange")
    ELSE LET a == write_u16(wr, Len(value) % 2^16)
         IN  IF a.kind # "Ok" THEN a ELSE Plus(a, tlv_write(a.w, value))

\* Writer::write_lv32
write_lv32(wr, value) ==
    LET a == tlv_write_u32(wr, Len(value))
    IN  IF a.kind # "Ok" THEN a ELSE Plus(a, tlv_write(a.w, value))

\* write_lvN for the width N of the length field
write_lvN(width, wr, value) ==
    CASE width = 8 -> write_lv8(wr, value)
      [] width = 16 -> write_lv16(wr, value)
      [] width = 32 -> write_lv32(wr, value)

\* Writer::write_tlv8, write_tlv16 and write_tlv32
write_tlvN(width, wr, tag, value) ==
    LET a == write_tag(wr, tag)
    IN  IF a.kind # "Ok" THEN a ELSE Plus(a, write_lvN(width, a.w, value))

write_tlv8(wr, tag, value) == write_tlvN(8, wr, tag, value)

write_tlv16(wr, tag, value) == write_tlvN(16, wr, tag, value)

write_tlv32(wr, tag, value) == write_tlvN(32, wr, tag, value)

\* Writer::write_atlv8, write_atlv16 and write_atlv32
write_atlvN(width, wr, addr, tag, value) ==
    LET a == write_lvN(width, wr, addr)
    IN  IF a.kind # "Ok" THEN a
        ELSE LET b == Plus(a, write_tag(a.w, tag))
             IN  IF b.kind # "Ok" THEN b
                 ELSE Plus(b, write_lvN(width, b.w, value))

write_atlv8(wr, addr, tag, value) == write_atlvN(8, wr, addr, tag, value)

write_atlv16(wr, addr, tag, value) == write_atlvN(16, wr, addr, tag, value)

write_atlv32(wr, addr, tag, value) == write_atlvN(32, wr, addr, tag, value)

-----------------------------------------------------------------------------
(* tlv::Reader                                                             *)

TlvReader_new(buf) == [buf |-> buf, pos |-> 0]

TlvReader_remaining(rd) == Len(rd.buf) - rd.pos

TlvReader_as_ref(rd) == Slice(rd.buf, rd.pos, Len(rd.buf))

\* The result of a read: the Reader after the call and Ok(None), Ok(Some),
\* Err(err) or a panic.  Some carries a number (n), a 32-bit value (v), a
\* slice of the destination (msg) or an address, a tag and a slice.
TlvNone(rd) ==
    [r |-> rd, kind |-> "None", err |-> "", n |-> 0, v |-> Zero32,
     msg |-> <<>>, addr |-> <<>>]

TlvFail(rd, kind, e) == [TlvNone(rd) EXCEPT !.kind = kind, !.err = e]

TlvSomeN(rd, n) == [TlvNone(rd) EXCEPT !.kind = "Some", !.n = n]

TlvSomeV(rd, v) == [TlvNone(rd) EXCEPT !.kind = "Some", !.v = v]

TlvSomeMsg(rd, msg) == [TlvNone(rd) EXCEPT !.kind = "Some", !.msg = msg]

\* Reader::read_tag.  The leb128::Reader works on the bytes at and after
\* pos; what it consumed is added to pos only when it returned a value.
read_tag(rd, checks) ==
    LET res == read_u32(LebReader_new(TlvReader_as_ref(rd)), checks)
    IN  CASE res.kind = "Some" ->
                 TlvSomeV([rd EXCEPT !.pos = rd.pos + res.r.pos], res.v)
          [] res.kind = "None" -> TlvNone(rd)
          [] OTHER -> TlvFail(rd, res.kind, res.err)

\* Reader::read_u8
read_u8(rd) ==
    IF TlvReader_remaining(rd) < 1
    THEN TlvNone(rd)
    ELSE TlvSomeN([rd EXCEPT !.pos = rd.pos + 1], At(rd.buf, rd.pos))

\* BigEndian::read_u16 on the bytes b0, b1 (mutant: the low byte first)
LittleEndian_read_u16(b0, b1) == b1 * 256 + b0

BigEndian_read_u16(b0, b1) == b0 * 256 + b1

\* Reader::read_u16
read_u16(rd) ==
    IF TlvReader_remaining(rd) < 2
    THEN TlvNone(rd)
    ELSE TlvSomeN([rd EXCEPT !.pos = rd.pos + 2],
                  BigEndian_read_u16(At(rd.buf, rd.pos),
                                     At(rd.buf, rd.pos + 1)))

\* Reader::read_u32
tlv_read_u32(rd) ==
    IF TlvReader_remaining(rd) < 4
    THEN TlvNone(rd)
    ELSE TlvSomeV([rd EXCEPT !.pos = rd.pos + 4],
                  U32(BigEndian_read_u16(At(rd.buf, rd.pos),
                                         At(rd.buf, rd.pos + 1)),
                      BigEndian_read_u16(At(rd.buf, rd.pos + 2),
                                         At(rd.buf, rd.pos + 3))))

\* Reader::read into a destination of len bytes: the bytes copied are the
\* destination afterwards.
tlv_read(rd, len) ==
    IF len > TlvReader_remaining(rd)
    THEN TlvNone(rd)
    ELSE [TlvSomeN([rd EXCEPT !.pos = rd.pos + len], len)
             EXCEPT !.msg = Slice(rd.buf, rd.pos, rd.pos + len)]

\* What read_lvN does with the length it has read: &mut buf[..len] panics
\* when len exceeds the destination, then self.read fills the slice.
read_value(rd, len, buf) ==
    IF len > Len(buf)
    THEN TlvFail(rd, "Panic", "index")
    ELSE LET res == tlv_read(rd, len)
         IN  IF res.kind = "Some"
             THEN TlvSomeMsg(res.r, Slice(res.msg, 0, res.n))
             ELSE TlvNone(res.r)

\* Reader::read_lv8
read_lv8(rd, buf) ==
    LET a == read_u8(rd)
    IN  IF a.kind = "Some" THEN read_value(a.r, a.n, buf) ELSE TlvNone(a.r)

\* Reader::read_lv16
read_lv16(rd, buf) ==
    LET a == read_u16(rd)
    IN  IF a.kind = "Some" THEN read_value(a.r, a.n, buf) ELSE TlvNone(a.r)

\* Reader::read_lv32.  A length of 2^31 or more exceeds every destination.
read_lv32(rd, buf) ==
    LET a == tlv_read_u32(rd)
    IN  IF a.kind # "Some" THEN TlvNone(a.r)
        ELSE IF a.v.hi >= 2^15 THEN TlvFail(a.r, "Panic", "index")
        ELSE read_value(a.r, a.v.hi * 2^16 + a.v.lo, buf)

\* read_lvN for the width N of the length field
read_lvN(width, rd, buf) ==
    CASE width = 8 -> read_lv8(rd, buf)
      [] width = 16 -> read_lv16(rd, buf)
      [] width = 32 -> read_lv32(rd, buf)

\* Reader::read_tlv8, read_tlv16 and read_tlv32
read_tlvN(width, rd, buf, checks) ==
    LET t == read_tag(rd, checks)
    IN  IF t.kind # "Some" THEN t
        ELSE LET m == read_lvN(width, t.r, buf)
             IN  IF m.kind = "Some" THEN [m EXCEPT !.v = t.v] ELSE m

read_tlv8(rd, buf, checks) == read_tlvN(8, rd, buf, checks)

read_tlv16(rd, buf, checks) == read_tlvN(16, rd, buf, checks)

read_tlv32(rd, buf, checks) == read_tlvN(32, rd, buf, checks)

\* Reader::read_atlv8, read_atlv16 and read_atlv32
read_atlvN(width, rd, abuf, buf, checks) ==
    LET a == read_lvN(width, rd, abuf)
    IN  IF a.kind # "Some" THEN a
        ELSE LET t == read_tag(a.r, checks)
             IN  IF t.kind # "Some" THEN t
                 ELSE LET m == read_lvN(width, t.r, buf)
                      IN  IF m.kind = "Some"
                          THEN [m EXCEPT !.v = t.v, !.addr = a.msg]
                          ELSE m

read_atlv8(rd, abuf, buf, checks) == read_atlvN(8, rd, abuf, buf, checks)

read_atlv16(rd, abuf, buf, checks) == read_atlvN(16, rd, abuf, buf, checks)

read_atlv32(rd, abuf, buf, checks) == read_atlvN(32, rd, abuf, buf, checks)

-----------------------------------------------------------------------------
(* sctl: the control protocol.  A message is its variant's name with the   *)
(* payload it carries: a slice (value), or a status byte (code) for Exit.  *)

\* enum Tag
Tags ==
    [Boot |-> 1, Run |-> 2, Exit |-> 3, Exception |-> 4, Panic |-> 5,
     Stdin |-> 16, Stdout |-> 17, Stderr |-> 18,
     Error |-> 32, Warn |-> 33, Info |-> 34, Debug |-> 35, Trace |-> 36,
     Val |-> 48, Get |-> 49, Set |-> 50]

TagNames == DOMAIN Tags

\* tag as u32
TagValue(name) == U32(0, Tags[name])

Message(name, value) == [name |-> name, value |-> value, code |-> 0]

MessageExit(code) == [name |-> "Exit", value |-> <<>>, code |-> code]

NoMessage == [name |-> "", value |-> <<>>, code |-> 0]

SctlWriter_new(buf) == [buf |-> buf, pos |-> 0]

\* impl AsRef<[u8]> for Writer
SctlWriter_as_ref(wr) == Slice(wr.buf, 0, wr.pos)

\* The result of a Writer call: Ok(n) or Ok(slice), Err(err), or a panic.
SctlOk(wr, n, slice) ==
    [w |-> wr, kind |-> "Ok", err |-> "", n |-> n, out |-> slice]

SctlErr(wr, kind, e) ==
    [w |-> wr, kind |-> kind, err |-> e, n |-> 0, out |-> <<>>]

\* Writer::write_tlv.  The tlv::Writer works on the bytes at and after
\* pos and leaves there what it wrote before it failed.
sctl_write_tlv_finish(wr, res) ==
    LET buf1 == Slice(wr.buf, 0, wr.pos) \o res.w.buf
    IN  IF res.kind = "Ok"
        THEN SctlOk([buf |-> buf1, pos |-> wr.pos + res.n], res.n, <<>>)
        ELSE SctlErr([wr EXCEPT !.buf = buf1], res.kind,
                     IF res.kind = "Err" THEN "TlvError(" \o res.err \o ")"
                     ELSE res.err)

sctl_write_tlv(wr, name, value) ==
    sctl_write_tlv_finish(
        wr, write_tlv8(TlvWriter_new(Slice(wr.buf, wr.pos, Len(wr.buf))),
                       TagValue(name), value))

\* Writer::boot, run, exception, ...: one method for each variant
boot(wr, value) == sctl_write_tlv(wr, "Boot", value)

run(wr, value) == sctl_write_tlv(wr, "Run", value)

exception(wr, value) == sctl_write_tlv(wr, "Exception", value)

panic(wr, value) == sctl_write_tlv(wr, "Panic", value)

\* Writer::exit takes the status byte
exit(wr, value) == sctl_write_tlv(wr, "Exit", <<value>>)

stdin(wr, value) == sctl_write_tlv(wr, "Stdin", value)

stdout(wr, value) == sctl_write_tlv(wr, "Stdout", value)

stderr(wr, value) == sctl_write_tlv(wr, "Stderr", value)

error(wr, value) == sctl_write_tlv(wr, "Error", value)

warn(wr, value) == sctl_write_tlv(wr, "Warn", value)

info(wr, value) == sctl_write_tlv(wr, "Info", value)

debug(wr, value) == sctl_write_tlv(wr, "Debug", value)

trace(wr, value) == sctl_write_tlv(wr, "Trace", value)

val(wr, value) == sctl_write_tlv(wr, "Val", value)

get(wr, value) == sctl_write_tlv(wr, "Get", value)

set(wr, value) == sctl_write_tlv(wr, "Set", value)

\* The method that writes the message m.
send(wr, m) ==
    CASE m.name = "Boot" -> boot(wr, m.value)
      [] m.name = "Run" -> run(wr, m.value)
      [] m.name = "Exit" -> exit(wr, m.code)
      [] m.name = "Exception" -> exception(wr, m.value)
      [] m.name = "Panic" -> panic(wr, m.value)
      [] m.name = "Stdin" -> stdin(wr, m.value)
      [] m.name = "Stdout" -> stdout(wr, m.value)
      [] m.name = "Stderr" -> stderr(wr, m.value)
      [] m.name = "Error" -> error(wr, m.value)
      [] m.name = "Warn" -> warn(wr, m.value)
      [] m.name = "Info" -> info(wr, m.value)
      [] m.name = "Debug" -> debug(wr, m.value)
      [] m.name = "Trace" -> trace(wr, m.value)
      [] m.name = "Val" -> val(wr, m.value)
      [] m.name = "Get" -> get(wr, m.value)
      [] m.name = "Set" -> set(wr, m.value)

\* Writer::encode that keeps the records it has framed (mutant)
sctl_encode_keeps(wr, dst) ==
    LET res == encode_packet(Writer_new(dst), SctlWriter_as_ref(wr))
    IN  IF res.kind = "Ok"
        THEN SctlOk(wr, res.n, Slice(res.w.buf, 0, res.n))
        ELSE SctlErr(wr, res.kind,
                     IF res.kind = "Err" THEN "CobsError(" \o res.err \o ")"
                     ELSE res.err)

\* Writer::encode: the accumulated records become one frame in dst, and
\* the Writer starts over.
sctl_encode(wr, dst) ==
    LET res == encode_packet(Writer_new(dst), SctlWriter_as_ref(wr))
    IN  IF res.kind = "Ok"
        THEN SctlOk([wr EXCEPT !.pos = 0], res.n, Slice(res.w.buf, 0, res.n))
        ELSE SctlErr(wr, res.kind,
                     IF res.kind = "Err" THEN "CobsError(" \o res.err \o ")"
                     ELSE res.err)

\* Reader::new: len starts at 0 and no method sets it.
SctlReader_new(buf) == [buf |-> buf, len |-> 0, pos |-> 0]

\* The result of Reader::read: Ok(None), Ok(Some(msg)), Err(err) or a panic.
SctlRead(rd, kind, e, msg) == [r |-> rd, kind |-> kind, err |-> e, msg |-> msg]

\* The arm of the match for a tag found in the table (mutant: the arms of
\* Stdout and Stderr are exchanged).
MessageOfCrossed(name, value) ==
    CASE name = "Stdout" -> Message("Stderr", value)
      [] name = "Stderr" -> Message("Stdout", value)
      [] name = "Exit" -> MessageExit(At(value, 0))
      [] OTHER -> Message(name, value)

MessageOf(name, value) ==
    IF name = "Exit" THEN MessageExit(At(value, 0)) ELSE Message(name, value)

\* Reader::read, from the result res of read_tlv8 on.  value[0] panics on
\* an empty value and the last arm of the match is unimplemented!().
sctl_read_match(rd, res) ==
    CASE res.kind = "None" -> SctlRead(rd, "None", "", NoMessage)
      [] res.kind = "Err" ->
             SctlRead(rd, "Err", "TlvError(" \o res.err \o ")", NoMessage)
      [] res.kind = "Panic" -> SctlRead(rd, "Panic", res.err, NoMessage)
      [] res.kind = "Some" ->
             LET rd1 == [rd EXCEPT !.pos = rd.pos + res.r.pos]
                 names == {n \in TagNames : TagValue(n) = res.v}
             IN  IF names = {}
                 THEN SctlRead(rd1, "Panic", "not yet implemented",
                               NoMessage)
                 ELSE LET name == CHOOSE n \in names : TRUE
                      IN  IF name = "Exit" /\ Len(res.msg) = 0
                          THEN SctlRead(rd1, "Panic", "index", NoMessage)
                          ELSE SctlRead(rd1, "Some", "",
                                        MessageOf(name, res.msg))

\* Reader::read
sctl_read(rd, buf, checks) ==
    sctl_read_match(
        rd, read_tlv8(TlvReader_new(Slice(rd.buf, rd.pos, Len(rd.buf))),
                      buf, checks))

\* Reader::pos
SctlReader_pos(rd) == rd.pos

\* Reader::len
SctlReader_len(rd) == rd.len

\* Reader::remaining: len - pos on usize.  Below zero the subtraction
\* panics in a build with overflow checks and wraps otherwise; n is then
\* the result less 2^BITS.
SctlReader_remaining(rd, checks) ==
    IF rd.len >= rd.pos
    THEN [kind |-> "Ok", n |-> rd.len - rd.pos]
    ELSE IF checks
    THEN [kind |-> "Panic", n |-> 0]
    ELSE [kind |-> "Wrapped", n |-> rd.len - rd.pos]

-----------------------------------------------------------------------------
(* Inputs of the codec harness                                             *)

\* The bytes the short inputs are made of: the delimiter, a literal and the
\* largest byte.
Alphabet == {0, 17, 255}

RECURSIVE SeqsUpTo(_)
SeqsUpTo(n) ==
    IF n = 0
    THEN {<<>>}
    ELSE LET shorter == SeqsUpTo(n - 1)
         IN  shorter \cup {Append(s, b) : s \in {t \in shorter : Len(t) = n - 1},
                                          b \in Alphabet}

\* A run of k non-zero bytes.
Run(k) == SubSeq([i \in 1..k |-> ((i - 1) % 255) + 1], 1, k)

\* Inputs around the 254-byte group limit.
LongInputs ==
    { Run(253), Run(254), Run(255),
      Run(253) \o <<0>>, Run(254) \o <<0>>, <<0>> \o Run(254),
      Run(254) \o <<0, 7>>, Run(253) \o <<0, 7>> }

\* U0 .. U5 of the tests.
Vectors ==
    { <<>>, <<0>>, <<0, 0>>, <<17, 34, 0, 51>>, <<17, 34, 51, 68>>,
      <<17, 0, 0, 0>> }

\* Inputs of two full groups, and one byte less.
TwoGroupInputs == {Run(507), Run(508), Run(254) \o <<0>> \o Run(254)}

CodecInputs == SeqsUpTo(MaxLen) \cup LongInputs \cup Vectors \cup TwoGroupInputs

\* Destination sizes tried by encode for an input of length n.
EncodeDstLens(n) == {n, n + 1, n + 2, n + 3}

\* Destination sizes tried by decode for an encoding of length n of an
\* input of length m.
DecodeDstLens(n, m) == {k \in {m - 1, m, n - 1, n} : k >= 0}

-----------------------------------------------------------------------------
(* The codec harness: encode a slice, then decode the encoding or frame    *)
(* the slice with a Writer.                                                *)

NoCall == [kind |-> "NoCall", calls |-> 0]

CodecIdle ==
    /\ c_pc = "idle"
    /\ c_src = <<>>
    /\ c_enc = NoResult
    /\ c_dec = NoResult
    /\ c_frm = NoCall

StreamIdle ==
    /\ s_pc = "idle"
    /\ w = Writer_new(<<>>)
    /\ w_ret = NoCall
    /\ sent = <<>>
    /\ wire = <<>>
    /\ s_bad = 0
    /\ r_fill = 0
    /\ r = Reader_new(<<>>)
    /\ r_dst = <<>>
    /\ fed = 0
    /\ feeds = 0
    /\ compacted = FALSE
    /\ r_ret = NoCall
    /\ out = <<>>

LebIdle ==
    /\ l_pc = "idle"
    /\ overflow_checks = FALSE
    /\ lw = Writer_new(<<>>)
    /\ l_wret = NoCall
    /\ l_items = <<>>
    /\ lr = [buf |-> <<>>, pos |-> 0]
    /\ l_reads = <<>>

\* All of the varint harness but the build.
LebUnused ==
    /\ l_pc = "idle"
    /\ lw = Writer_new(<<>>)
    /\ l_wret = NoCall
    /\ l_items = <<>>
    /\ lr = [buf |-> <<>>, pos |-> 0]
    /\ l_reads = <<>>

TlvNoCall ==
    [kind |-> "NoCall", err |-> "", n |-> 0, calls |-> 0, op |-> "",
     tag |-> Zero32, alen |-> 0, vlen |-> 0,
     pre |-> [pos |-> 0, ref |-> <<>>]]

TlvIdle ==
    /\ t_pc = "idle"
    /\ t_width = 8
    /\ tw = TlvWriter_new(<<>>)
    /\ t_wret = TlvNoCall
    /\ t_items = <<>>
    /\ tr = TlvReader_new(<<>>)
    /\ t_reads = <<>>

SctlIdle ==
    /\ x_pc = "idle"
    /\ xw = SctlWriter_new(<<>>)
    /\ x_wret = NoCall
    /\ x_sent = <<>>
    /\ x_frame = NoCall
    /\ x_via = "none"
    /\ xr = SctlReader_new(<<>>)
    /\ x_out = <<>>

CodecInit ==
    /\ c_pc = "start"
    /\ c_src \in CodecInputs
    /\ c_enc = NoResult
    /\ c_dec = NoResult
    /\ c_frm = NoCall
    /\ StreamIdle
    /\ LebIdle
    /\ TlvIdle
    /\ SctlIdle

\* encode(&c_src, &mut [0xff; dlen])
Encode ==
    /\ c_pc = "start"
    /\ \E dlen \in EncodeDstLens(Len(c_src)) :
          c_enc' = encode(c_src, Fill(dlen, 255))
    /\ c_pc' = "encoded"
    /\ UNCHANGED <<c_src, c_dec, c_frm, stream_vars, leb_vars, tlv_vars,
                   sctl_vars>>

\* decode(&enc[..n], &mut [0xff; dlen])
Decode ==
    /\ c_pc = "encoded"
    /\ c_enc.kind = "Ok"
    /\ \E dlen \in DecodeDstLens(c_enc.n, Len(c_src)) :
          c_dec' = decode(Slice(c_enc.dst, 0, c_enc.n), Fill(dlen, 255))
    /\ c_pc' = "decoded"
    /\ UNCHANGED <<c_src, c_enc, c_frm, stream_vars, leb_vars, tlv_vars,
                   sctl_vars>>

\* Writer::new(&mut [0xff; cap]).encode_packet(&c_src)
Frame ==
    /\ c_pc = "start"
    /\ \E cap \in EncodeDstLens(Len(c_src)) :
          c_frm' = encode_packet(Writer_new(Fill(cap, 255)), c_src)
    /\ c_pc' = "framed"
    /\ UNCHANGED <<c_src, c_enc, c_dec, stream_vars, leb_vars, tlv_vars,
                   sctl_vars>>

CodecNext == Encode \/ Decode \/ Frame

SpecCodec == CodecInit /\ [][CodecNext]_vars

-----------------------------------------------------------------------------
(* decode on sources that no encoder produced                              *)

\* Longest short source.
SrcLen == 4

\* The bytes the short sources are made of: the delimiter, the headers of
\* groups of 0, 1 and 2 bytes, a literal, and the header of a full group.
SourceBytes == {0, 1, 2, 3, 17, 255}

RECURSIVE SourcesUpTo(_)
SourcesUpTo(n) ==
    IF n = 0
    THEN {<<>>}
    ELSE LET shorter == SourcesUpTo(n - 1)
         IN  shorter \cup {Append(s, b) : s \in {t \in shorter : Len(t) = n - 1},
                                          b \in SourceBytes}

\* Sources that start with the header of a full group: whole, a byte
\* short, with a zero inside, and followed by a second group.
LongSources ==
    { <<255>> \o Run(254), <<255>> \o Run(253),
      <<255>> \o Run(100) \o <<0>> \o Run(153),
      <<255>> \o Run(254) \o <<2, 17>>, <<255>> \o Run(254) \o <<3, 17>> }

DecodeSources == SourcesUpTo(SrcLen) \cup LongSources

\* Destination sizes tried for a source of n bytes.
SourceDstLens(n) == {k \in {n - 2, n - 1, n, n + 1} : k >= 0}

DecodeInit ==
    /\ c_pc = "source"
    /\ c_src \in DecodeSources
    /\ c_enc = NoResult
    /\ c_dec = NoResult
    /\ c_frm = NoCall
    /\ StreamIdle
    /\ LebIdle
    /\ TlvIdle
    /\ SctlIdle

\* decode(&c_src, &mut [0xff; dlen])
DecodeSource ==
    /\ c_pc = "source"
    /\ \E dlen \in SourceDstLens(Len(c_src)) :
          c_dec' = decode(c_src, Fill(dlen, 255))
    /\ c_pc' = "returned"
    /\ UNCHANGED <<c_src, c_enc, c_frm, stream_vars, leb_vars, tlv_vars,
                   sctl_vars>>

SpecDecode == DecodeInit /\ [][DecodeSource]_vars

-----------------------------------------------------------------------------
(* The stream: a Writer fills a buffer with frames, the buffer travels to  *)
(* a Reader in chunks, and the Reader's caller drains it after each chunk. *)

\* The payloads handed to the streaming Writer.
Payloads == {<<>>, <<0>>, <<17>>, <<17, 34>>, <<17, 0, 34>>}

\* The bytes a damaged byte can turn into (a zero would split the frame).
CorruptBytes == {1, 3}

\* What the Reader's buffer holds before anything is copied into it.
FillBytes == {0, 255}

\* Capacity of the caller's destination.
DstCap == WCap

\* A destination too short for the longer frames.
DstShort == 2

\* The sizes of the caller's destination.
DstLens == {DstShort, DstCap}

StreamInit ==
    /\ s_pc = "write"
    /\ w = Writer_new(Fill(WCap, 255))
    /\ w_ret = NoCall
    /\ sent = <<>>
    /\ wire = <<>>
    /\ s_bad = 0
    /\ r_fill \in FillBytes
    /\ r = Reader_new(Fill(RCap, r_fill))
    /\ \E dlen \in DstLens : r_dst = Fill(dlen, 255)
    /\ fed = 0
    /\ feeds = 0
    /\ compacted = FALSE
    /\ r_ret = NoCall
    /\ out = <<>>
    /\ CodecIdle
    /\ LebIdle
    /\ TlvIdle
    /\ SctlIdle

\* w.encode_packet(src)
EncodePacket ==
    /\ s_pc = "write"
    /\ w_ret.calls < MaxWrites
    /\ \E src \in Payloads :
          LET res == encode_packet(w, src)
          IN  /\ w' = res.w
              /\ w_ret' = [kind |-> res.kind, err |-> res.err, n |-> res.n,
                           src |-> src, pre |-> w,
                           calls |-> w_ret.calls + 1]
              /\ sent' = IF res.kind = "Ok" THEN Append(sent, src) ELSE sent
    /\ UNCHANGED <<s_pc, wire, s_bad, r_fill, r, r_dst, fed, feeds, compacted,
                   r_ret, out,
                   codec_vars, leb_vars, tlv_vars,
                   sctl_vars>>

\* The index just past the terminator of frame j of a stream.
RECURSIVE FrameEnd(_, _)
FrameEnd(stream, j) ==
    IF j = 0
    THEN 0
    ELSE LET from == FrameEnd(stream, j - 1)
         IN  1 + CHOOSE i \in from..(Len(stream) - 1) :
                    /\ At(stream, i) = 0
                    /\ \A k \in from..(i - 1) : At(stream, k) # 0

\* The frame that index i of a stream lies in.
FrameOf(stream, i) ==
    CHOOSE j \in 1..Len(stream) :
        FrameEnd(stream, j - 1) <= i /\ i < FrameEnd(stream, j)

\* The Writer's bytes reach the Reader's side unchanged.
Transmit ==
    /\ s_pc = "write"
    /\ sent # <<>>
    /\ wire' = Writer_as_ref(w)
    /\ s_bad' = 0
    /\ s_pc' = "feed"
    /\ UNCHANGED <<w, w_ret, sent, r_fill, r, r_dst, fed, feeds, compacted,
                   r_ret, out,
                   codec_vars, leb_vars, tlv_vars,
                   sctl_vars>>

\* One byte of one frame is damaged in transit.
TransmitDamaged ==
    /\ s_pc = "write"
    /\ sent # <<>>
    /\ \E i \in 0..(w.pos - 1), b \in CorruptBytes :
          /\ At(w.buf, i) # 0
          /\ At(w.buf, i) # b
          /\ wire' = Put(Writer_as_ref(w), i, b)
          /\ s_bad' = FrameOf(Writer_as_ref(w), i)
    /\ s_pc' = "feed"
    /\ UNCHANGED <<w, w_ret, sent, r_fill, r, r_dst, fed, feeds, compacted,
                   r_ret, out,
                   codec_vars, leb_vars, tlv_vars,
                   sctl_vars>>

\* r.as_mut()[..n].copy_from_slice(&wire[fed..fed + n]); r.extend(n)
Feed ==
    /\ s_pc = "feed"
    /\ \E n \in 1..(Len(wire) - fed) :
          /\ n <= Reader_remaining(r)
          /\ r' = Reader_extend(
                     [r EXCEPT !.buf = Slice(r.buf, 0, r.tail)
                                       \o Slice(wire, fed, fed + n)
                                       \o Slice(r.buf, r.tail + n, Len(r.buf))],
                     n)
          /\ fed' = fed + n
    /\ feeds' = IF feeds = 0 THEN 1 ELSE 2
    /\ s_pc' = "drain"
    /\ UNCHANGED <<w, w_ret, sent, wire, s_bad, r_fill, r_dst, compacted, r_ret,
                   out,
                   codec_vars, leb_vars, tlv_vars,
                   sctl_vars>>

\* r.decode_packet(&mut r_dst); the caller repeats it until Ok(None)
DecodePacket ==
    /\ s_pc = "drain"
    /\ LET res == decode_packet(r, r_dst)
           ret == [kind |-> res.kind, err |-> res.err, n |-> res.n,
                   data |-> Slice(res.dst, 0, res.n),
                   head |-> res.r.head, calls |-> 0]
       IN  /\ r' = res.r
           /\ r_dst' = res.dst
           /\ r_ret' = ret
           /\ out' = IF res.kind = "None" THEN out ELSE Append(out, ret)
           /\ s_pc' = IF res.kind = "None"
                      THEN IF fed = Len(wire) THEN "done" ELSE "feed"
                      ELSE "drain"
    /\ UNCHANGED <<w, w_ret, sent, wire, s_bad, r_fill, fed, feeds, compacted,
                   codec_vars, leb_vars, tlv_vars,
                   sctl_vars>>

\* r.compact(), between two chunks
Compact ==
    /\ s_pc = "feed"
    /\ r' = Reader_compact(r)
    /\ compacted' = TRUE
    /\ UNCHANGED <<s_pc, w, w_ret, sent, wire, s_bad, r_fill, r_dst, fed, feeds,
                   r_ret,
                   out,
                   codec_vars, leb_vars, tlv_vars,
                   sctl_vars>>

StreamNext ==
    \/ EncodePacket
    \/ Transmit
    \/ TransmitDamaged
    \/ Feed
    \/ DecodePacket
    \/ Compact

SpecStream == StreamInit /\ [][StreamNext]_vars

-----------------------------------------------------------------------------
(* Properties of the frame codec (SpecCodec)                               *)

\* decode returned Ok(s.len()) and dst starts with s.
RoundTripped ==
    /\ c_dec.kind = "Ok"
    /\ c_dec.n = Len(c_src)
    /\ Slice(c_dec.dst, 0, Len(c_src)) = c_src

\* C1 as stated: decoding the output of encode(s) into a destination of
\* s.len() bytes returns Ok(s.len()) and reproduces s.
C1_RoundTripIntoInputLen ==
    (c_pc = "decoded" /\ Len(c_dec.dst) = Len(c_src)) => RoundTripped

\* C1 amended: decoding the output of encode(s), n bytes long, into a
\* destination of at least n - 1 bytes returns Ok(s.len()) and reproduces s.
C1_RoundTrip ==
    (c_pc = "decoded" /\ Len(c_dec.dst) >= c_enc.n - 1) => RoundTripped

\* A run of 254 non-zero bytes and a zero have made the round trip through
\* the smallest destination decode accepts.
C1_Witness ==
    /\ c_pc = "decoded"
    /\ Len(c_src) >= 254
    /\ \E i \in 1..Len(c_src) : c_src[i] = 0
    /\ Len(c_dec.dst) = c_enc.n - 1
    /\ RoundTripped

\* C2: when encode returns Ok(n), the first n bytes of dst are all in
\* 1..255; in a frame written by encode_packet the only zero is the last
\* byte.
C2_ZeroFree ==
    /\ (c_pc \in {"encoded", "decoded"} /\ c_enc.kind = "Ok") =>
           \A i \in 0..(c_enc.n - 1) : At(c_enc.dst, i) \in 1..255
    /\ (c_pc = "framed" /\ c_frm.kind = "Ok") =>
           LET f == Writer_as_ref(c_frm.w)
           IN  {i \in 0..(Len(f) - 1) : At(f, i) = 0} = {Len(f) - 1}

\* An input with a zero after a full group has been encoded.
C2_Witness ==
    /\ c_pc = "encoded"
    /\ c_enc.kind = "Ok"
    /\ At(c_enc.dst, 0) = 255
    /\ \E i \in 1..Len(c_src) : c_src[i] = 0

-----------------------------------------------------------------------------
(* Properties of the streaming Writer and Reader (SpecStream)              *)

\* The encoding of src, taken from a destination with room to spare.
Encoding(src) ==
    LET e == encode(src, Fill(Len(src) + 2 + (Len(src) \div 254), 255))
    IN  Slice(e.dst, 0, e.n)

EncodedLen(src) == Len(Encoding(src))

\* encode(src_1) ++ 00 ++ ... ++ encode(src_k) ++ 00
RECURSIVE Frames(_)
Frames(payloads) ==
    IF payloads = <<>>
    THEN <<>>
    ELSE Frames(SubSeq(payloads, 1, Len(payloads) - 1))
         \o Encoding(payloads[Len(payloads)]) \o <<0>>

\* The length of the encoded frame j of a stream, terminator excluded.
FrameLen(stream, j) == FrameEnd(stream, j) - FrameEnd(stream, j - 1) - 1

\* The whole stream was copied into the Reader in one chunk.
WholeLoad == feeds = 1 /\ fed = Len(wire)

\* The caller's destination is large enough for frame j.
DstHolds(j) == Len(r_dst) + 1 >= FrameLen(wire, j)

SameResult(a, b) ==
    /\ a.kind = b.kind
    /\ a.err = b.err
    /\ a.n = b.n
    /\ a.data = b.data

\* What decode_packet returns, call after call until Ok(None), from rd.
RECURSIVE DrainAll(_, _, _)
DrainAll(rd, dst, acc) ==
    LET res == decode_packet(rd, dst)
    IN  IF res.kind = "None"
        THEN acc
        ELSE DrainAll(res.r, res.dst,
                      Append(acc, [kind |-> res.kind, err |-> res.err,
                                   n |-> res.n,
                                   data |-> Slice(res.dst, 0, res.n)]))

\* The results of a Reader into which the stream is copied whole, followed
\* by a single extend.
WholeResults ==
    DrainAll(Reader_extend(
                 Reader_new(wire \o Fill(RCap - Len(wire), r_fill)),
                 Len(wire)),
             Fill(Len(r_dst), 255), <<>>)

\* C3: copying the frames written by a Writer into the Reader in chunks,
\* with decode_packet called after each chunk until Ok(None), yields the
\* results that copying them whole yields: the same, in the same order, and
\* as many once the stream has been drained.
C3_Reassembly ==
    (s_bad = 0 /\ ~compacted) =>
        /\ Len(out) <= Len(WholeResults)
        /\ \A i \in 1..Len(out) :
               i <= Len(WholeResults) => SameResult(out[i], WholeResults[i])
        /\ s_pc = "done" => Len(out) = Len(WholeResults)

\* The buffered bytes, head..tail, hold no zero.
NoZeroBuffered == \A i \in r.head..(r.tail - 1) : At(r.buf, i) # 0

\* C4: when the buffered bytes hold no zero, decode_packet returns Ok(None)
\* and leaves head, tail and dst as they were, whatever lies beyond tail.
C4_IncompleteIsNoOp ==
    [][(s_pc = "drain" /\ NoZeroBuffered) =>
           (r_ret'.kind = "None" /\ r' = r /\ r_dst' = r_dst)]_vars

\* C5: after a stream of k frames is loaded whole, the i-th decode_packet
\* call returns the i-th payload and leaves pos just past the i-th
\* terminator; the call after the k-th returns Ok(None) and leaves pos
\* there, with len() = 0.
C5_FrameOrder ==
    (WholeLoad /\ s_bad = 0) =>
        /\ Len(out) <= Len(sent)
        /\ \A i \in 1..Len(out) :
               /\ i <= Len(sent)
               /\ out[i].head = FrameEnd(wire, i)
               /\ DstHolds(i) =>
                      /\ out[i].kind = "Some"
                      /\ out[i].n = Len(sent[i])
                      /\ out[i].data = sent[i]
        /\ r_ret.kind = "None" =>
               /\ Len(out) = Len(sent)
               /\ r.head = FrameEnd(wire, Len(sent))
               /\ r.tail - r.head = 0

\* Two frames have been read in order and the third call returned Ok(None).
C5_Witness ==
    /\ WholeLoad
    /\ s_bad = 0
    /\ Len(r_dst) = DstCap
    /\ Len(out) = 2
    /\ out[1].data # out[2].data
    /\ r_ret.kind = "None"

C7_WriterLayout ==
    /\ Writer_as_ref(w) = Frames(sent)
    /\ w_ret.kind = "Ok" =>
           /\ w_ret.n = EncodedLen(w_ret.src) + 1
           /\ w.pos = w_ret.pre.pos + w_ret.n
           /\ Slice(w.buf, 0, w_ret.pre.pos) = Writer_as_ref(w_ret.pre)

\* Two frames lie in the Writer's buffer.
C7_Witness ==
    /\ s_pc = "write"
    /\ w_ret.kind = "Ok"
    /\ Len(sent) = 2
    /\ sent[1] # <<>>
    /\ sent[2] # <<>>

\* C8: encode_packet(src) returns Err(DestTooShort) exactly when
\* remaining() < encoded_len(src) + 1, and then pos() and as_ref() are what
\* they were; when remaining() = encoded_len(src) + 1 it leaves
\* remaining() = 0.
C8_WriterCapacity ==
    w_ret.kind # "NoCall" =>
        LET room == Writer_remaining(w_ret.pre)
            need == EncodedLen(w_ret.src) + 1
        IN  /\ w_ret.kind \in {"Ok", "Err"}
            /\ w_ret.kind = "Err" <=> room < need
            /\ w_ret.kind = "Err" =>
                   /\ w_ret.err = "DestTooShort"
                   /\ w.pos = w_ret.pre.pos
                   /\ Writer_as_ref(w) = Writer_as_ref(w_ret.pre)
            /\ room = need => Writer_remaining(w) = 0

\* A call failed after encode had written part of the frame beyond pos.
C8_Witness ==
    /\ w_ret.kind = "Err"
    /\ w_ret.pre.pos > 0
    /\ w.buf # w_ret.pre.buf

-----------------------------------------------------------------------------
(* The varint harness: values are written with a leb128::Writer and read   *)
(* back with a leb128::Reader over the bytes written.                      *)

\* 2^k as a 32-bit value, k in 0..31
Pow2(k) == IF k < 16 THEN U32(0, 2^k) ELSE U32(2^(k - 16), 0)

\* 2^k - 1 as a 32-bit value, k in 0..32
Pow2Less1(k) ==
    IF k <= 16 THEN U32(0, 2^k - 1) ELSE U32(2^(k - 16) - 1, 65535)

\* !v
Not32(v) == U32(65535 - v.hi, 65535 - v.lo)

\* The bit positions at which the encodings change length or sign.
EdgeBits == {0, 1, 6, 7, 13, 14, 20, 21, 27, 28, 31}

\* The 32-bit patterns written: 2^k, 2^k - 1 and their complements (as
\* i32: -2^k - 1 and -2^k), with 0, -1, i32::MIN, i32::MAX, u32::MAX, -2,
\* -64, 64 and -65 among them, and the values of the tests.
Values32 ==
    LET edges == {Pow2(k) : k \in EdgeBits}
                     \cup {Pow2Less1(k) : k \in EdgeBits \cup {32}}
    IN  edges \cup {Not32(v) : v \in edges}
              \cup {U32(0, 300), U32(33025, 257), U32(33, 257)}

Kinds == {"u32", "i32"}

LebInit ==
    /\ l_pc = "write"
    /\ overflow_checks \in BOOLEAN
    /\ lw = Writer_new(Fill(LebCap, 255))
    /\ l_wret = NoCall
    /\ l_items = <<>>
    /\ lr = LebReader_new(<<>>)
    /\ l_reads = <<>>
    /\ CodecIdle
    /\ StreamIdle
    /\ TlvIdle
    /\ SctlIdle

\* lw.write_u32(v)
WriteU32 ==
    /\ l_pc = "write"
    /\ l_wret.calls < MaxVals
    /\ \E v \in Values32 :
          LET res == write_u32(lw, v)
          IN  /\ lw' = res.w
              /\ l_wret' = [kind |-> res.kind, err |-> res.err,
                            calls |-> l_wret.calls + 1]
              /\ l_items' = IF res.kind = "Ok"
                            THEN Append(l_items,
                                        [kind |-> "u32", v |-> v,
                                         from |-> lw.pos, to |-> res.w.pos])
                            ELSE l_items
    /\ UNCHANGED <<l_pc, overflow_checks, lr, l_reads, codec_vars,
                   stream_vars, tlv_vars, sctl_vars>>

\* lw.write_i32(v)
WriteI32 ==
    /\ l_pc = "write"
    /\ l_wret.calls < MaxVals
    /\ \E v \in Values32 :
          LET res == write_i32(lw, v)
          IN  /\ lw' = res.w
              /\ l_wret' = [kind |-> res.kind, err |-> res.err,
                            calls |-> l_wret.calls + 1]
              /\ l_items' = IF res.kind = "Ok"
                            THEN Append(l_items,
                                        [kind |-> "i32", v |-> v,
                                         from |-> lw.pos, to |-> res.w.pos])
                            ELSE l_items
    /\ UNCHANGED <<l_pc, overflow_checks, lr, l_reads, codec_vars,
                   stream_vars, tlv_vars, sctl_vars>>

\* Reader::new(lw.as_ref())
StartRead ==
    /\ l_pc = "write"
    /\ l_wret.kind # "NoCall"
    /\ lr' = LebReader_new(Writer_as_ref(lw))
    /\ l_pc' = "read"
    /\ UNCHANGED <<overflow_checks, lw, l_wret, l_items, l_reads, codec_vars,
                   stream_vars, tlv_vars, sctl_vars>>

ReadEntry(op, res) ==
    [op |-> op, kind |-> res.kind, err |-> res.err, v |-> res.v,
     from |-> lr.pos, to |-> res.r.pos]

\* lr.read_u32()
ReadU32 ==
    /\ l_pc = "read"
    /\ Len(l_reads) < Len(l_items)
    /\ LET res == read_u32(lr, overflow_checks)
       IN  /\ lr' = res.r
           /\ l_reads' = Append(l_reads, ReadEntry("u32", res))
    /\ UNCHANGED <<l_pc, overflow_checks, lw, l_wret, l_items, codec_vars,
                   stream_vars, tlv_vars, sctl_vars>>

\* lr.read_i32()
ReadI32 ==
    /\ l_pc = "read"
    /\ Len(l_reads) < Len(l_items)
    /\ LET res == read_i32(lr, overflow_checks)
       IN  /\ lr' = res.r
           /\ l_reads' = Append(l_reads, ReadEntry("i32", res))
    /\ UNCHANGED <<l_pc, overflow_checks, lw, l_wret, l_items, codec_vars,
                   stream_vars, tlv_vars, sctl_vars>>

LebNext == WriteU32 \/ WriteI32 \/ StartRead \/ ReadU32 \/ ReadI32

SpecLeb == LebInit /\ [][LebNext]_vars

-----------------------------------------------------------------------------
(* Properties of the varint codec (SpecLeb)                                *)

\* C9: reading a value with the read that matches its write, from the
\* position it was written at, returns Ok(Some(v)) and ends where the write
\* ended.
C9_VarintRoundTrip ==
    \A j \in 1..Len(l_reads) :
        (l_reads[j].op = l_items[j].kind /\ l_reads[j].from = l_items[j].from)
            => /\ l_reads[j].kind = "Some"
               /\ l_reads[j].v = l_items[j].v
               /\ l_reads[j].to = l_items[j].to

\* i32::MIN was written by write_i32 after a u32 of one byte, and both
\* were read back.
C9_Witness ==
    /\ Len(l_reads) = 2
    /\ l_items[1].kind = "u32"
    /\ l_items[1].v = U32(0, 127)
    /\ l_items[2].kind = "i32"
    /\ l_items[2].v = U32(32768, 0)
    /\ l_reads[1].op = "u32"
    /\ l_reads[2].op = "i32"
    /\ l_reads[2].kind = "Some"
    /\ l_reads[2].v = U32(32768, 0)

\* Bit j of a 32-bit value, 0 beyond bit 31.
Bit(v, j) ==
    IF j < 16 THEN (v.lo \div 2^j) % 2
    ELSE IF j < 32 THEN (v.hi \div 2^(j - 16)) % 2
    ELSE 0

\* bitlen(v): the position of the highest set bit, plus one.
BitLen32(v) ==
    IF v = Zero32 THEN 0
    ELSE 1 + CHOOSE j \in 0..31 :
                 Bit(v, j) = 1 /\ \A k \in (j + 1)..31 : Bit(v, k) = 0

\* Bits 7i..7i+6 of v.
Group(v, i) ==
    Bit(v, 7 * i) + 2 * Bit(v, 7 * i + 1) + 4 * Bit(v, 7 * i + 2)
        + 8 * Bit(v, 7 * i + 3) + 16 * Bit(v, 7 * i + 4)
        + 32 * Bit(v, 7 * i + 5) + 64 * Bit(v, 7 * i + 6)

\* max(1, ceil(bitlen(v) / 7))
CanonicalLen(v) ==
    IF BitLen32(v) = 0 THEN 1 ELSE (BitLen32(v) + 6) \div 7

\* The canonical unsigned LEB128 encoding of v.
Canonical(v) ==
    [i \in 1..CanonicalLen(v) |->
        Group(v, i - 1) + (IF i < CanonicalLen(v) THEN 128 ELSE 0)]

\* The bytes an item occupies in the Writer's buffer.
ItemBytes(j) == Slice(lw.buf, l_items[j].from, l_items[j].to)

\* C10: write_u32(v) emits the canonical encoding of v: max(1,
\* ceil(bitlen(v)/7)) bytes, byte i holding bits 7i..7i+6 of v, the high
\* bit set on all but the last; write_u32(300) emits [0xAC, 0x02] and
\* write_i32(-2) emits [0x7E].
C10_Canonical ==
    \A j \in 1..Len(l_items) :
        /\ l_items[j].kind = "u32" =>
               /\ ItemBytes(j) = Canonical(l_items[j].v)
               /\ Len(ItemBytes(j)) \in 1..5
        /\ (l_items[j].kind = "u32" /\ l_items[j].v = U32(0, 300)) =>
               ItemBytes(j) = <<172, 2>>
        /\ (l_items[j].kind = "i32" /\ l_items[j].v = U32(65535, 65534)) =>
               ItemBytes(j) = <<126>>

\* 300 and -2 lie in the buffer.
C10_Witness ==
    /\ Len(l_items) = 2
    /\ l_items[1].kind = "u32"
    /\ l_items[1].v = U32(0, 300)
    /\ l_items[2].kind = "i32"
    /\ l_items[2].v = U32(65535, 65534)

-----------------------------------------------------------------------------
(* The raw varint harness: a leb128::Reader is built over bytes that no    *)
(* Writer produced, and read_u32 and read_i32 are called on it.            *)

\* Longest buffer handed to the Reader.
RawLen == 6

\* Number of reads made on one buffer.
RawReads == 2

\* Bytes with the continuation bit set.
ContBytes == {128, 255}

\* Bytes that end a value: the least and greatest of each length of the
\* last group, on both sides of the 4-bit limit of a fifth byte and of the
\* sign bit.
LastBytes == {0, 1, 7, 8, 15, 16, 63, 64, 119, 120, 127}

\* The sequences of k continuation bytes.
RECURSIVE ContRuns(_)
ContRuns(k) ==
    IF k = 0 THEN {<<>>}
    ELSE {Append(c, b) : c \in ContRuns(k - 1), b \in ContBytes}

\* The buffers: a run of continuation bytes, with or without a last byte.
RawBuffers ==
    UNION {ContRuns(k) : k \in 0..RawLen}
        \cup UNION {{Append(c, b) : c \in ContRuns(k), b \in LastBytes} :
                        k \in 0..(RawLen - 1)}

RawInit ==
    /\ l_pc = "raw"
    /\ overflow_checks \in BOOLEAN
    /\ lw = Writer_new(<<>>)
    /\ l_wret = NoCall
    /\ l_items = <<>>
    /\ \E buf \in RawBuffers : lr = LebReader_new(buf)
    /\ l_reads = <<>>
    /\ CodecIdle
    /\ StreamIdle
    /\ TlvIdle
    /\ SctlIdle

\* lr.read_u32(); a panic ends the program
RawReadU32 ==
    /\ l_pc = "raw"
    /\ Len(l_reads) < RawReads
    /\ LET res == read_u32(lr, overflow_checks)
       IN  /\ lr' = res.r
           /\ l_reads' = Append(l_reads, ReadEntry("u32", res))
           /\ l_pc' = IF res.kind = "Panic" THEN "panicked" ELSE "raw"
    /\ UNCHANGED <<overflow_checks, lw, l_wret, l_items, codec_vars,
                   stream_vars, tlv_vars, sctl_vars>>

\* lr.read_i32(); a panic ends the program
RawReadI32 ==
    /\ l_pc = "raw"
    /\ Len(l_reads) < RawReads
    /\ LET res == read_i32(lr, overflow_checks)
       IN  /\ lr' = res.r
           /\ l_reads' = Append(l_reads, ReadEntry("i32", res))
           /\ l_pc' = IF res.kind = "Panic" THEN "panicked" ELSE "raw"
    /\ UNCHANGED <<overflow_checks, lw, l_wret, l_items, codec_vars,
                   stream_vars, tlv_vars, sctl_vars>>

RawNext == RawReadU32 \/ RawReadI32

SpecRaw == RawInit /\ [][RawNext]_vars

-----------------------------------------------------------------------------
(* Properties of the varint Reader on raw bytes (SpecRaw)                  *)

\* The buffer holds a terminating byte at or after index from.
Terminated(buf, from) ==
    \E i \in from..(Len(buf) - 1) : At(buf, i) < 128

\* The index of the terminating byte of the value that starts at from.
LastIndex(buf, from) ==
    CHOOSE i \in from..(Len(buf) - 1) :
        At(buf, i) < 128 /\ \A k \in from..(i - 1) : At(buf, k) >= 128

\* The number of bytes of the value that starts at from.
EncodingLen(buf, from) == LastIndex(buf, from) - from + 1

\* C11: read_u32 returns Err(OutOfRange) for a 5-byte encoding whose last
\* byte is greater than 0x0F and for an encoding of 6 or more bytes whose
\* last byte is not zero, and Ok(Some(v)) for a 5-byte encoding whose last
\* byte is at most 0x0F.
C11_UnsignedOverflow ==
    \A j \in 1..Len(l_reads) :
        (l_reads[j].op = "u32" /\ Terminated(lr.buf, l_reads[j].from)) =>
            LET n == EncodingLen(lr.buf, l_reads[j].from)
                last == At(lr.buf, LastIndex(lr.buf, l_reads[j].from))
            IN  /\ ((n = 5 /\ last > 15) \/ (n >= 6 /\ last # 0)) =>
                       (l_reads[j].kind = "Err"
                            /\ l_reads[j].err = "OutOfRange")
                /\ (n = 5 /\ last <= 15) => l_reads[j].kind = "Some"

\* An integer wider than 31 bits, as hi * 2^16 + lo with lo in 0..65535.
Wide(hi, lo) == [hi |-> hi, lo |-> lo]

\* 128 * p + g
Times128Plus(p, g) ==
    Wide(128 * p.hi + ((128 * p.lo + g) \div 65536),
         (128 * p.lo + g) % 65536)

\* The integer that the groups of buf[from..=last] denote, least
\* significant group first, sign-extended from bit 6 of the last group.
RECURSIVE SignedValue(_, _, _)
SignedValue(buf, from, last) ==
    IF from = last
    THEN IF At(buf, last) >= 64
         THEN Wide(-1, 65536 + At(buf, last) - 128)
         ELSE Wide(0, At(buf, last))
    ELSE Times128Plus(SignedValue(buf, from + 1, last), At(buf, from) % 128)

\* -2^31 <= p <= 2^31 - 1
InI32(p) == p.hi >= -32768 /\ p.hi <= 32767

\* The two's complement pattern of an integer of the i32 range.
PatternOf(p) == U32((p.hi + 65536) % 65536, p.lo)

\* C12: read_i32 returns Err(OutOfRange) for every terminated encoding
\* whose integer value lies outside [-2^31, 2^31 - 1], and when it returns
\* Ok(Some(v)), v is that integer value.
C12_SignedOverflow ==
    \A j \in 1..Len(l_reads) :
        (l_reads[j].op = "i32" /\ Terminated(lr.buf, l_reads[j].from)) =>
            LET value == SignedValue(lr.buf, l_reads[j].from,
                                     LastIndex(lr.buf, l_reads[j].from))
            IN  /\ ~InI32(value) =>
                       (l_reads[j].kind = "Err"
                            /\ l_reads[j].err = "OutOfRange")
                /\ l_reads[j].kind = "Some" =>
                       (InI32(value) /\ l_reads[j].v = PatternOf(value))

\* C13: a read that finds the buffer exhausted before the terminating byte
\* of a value returns Ok(None) and leaves pos() where it was.
C13_PartialIsNoOp ==
    \A j \in 1..Len(l_reads) :
        ~Terminated(lr.buf, l_reads[j].from) =>
            (l_reads[j].kind = "None" /\ l_reads[j].to = l_reads[j].from)

-----------------------------------------------------------------------------
(* The TLV harness: records are written with a tlv::Writer until a write   *)
(* fails, then a tlv::Reader over the bytes written, or over all but the   *)
(* end of the last record, reads them with the matching calls.             *)

\* Capacity of the tlv::Writer's buffer when it is not sized for a value
\* of the greatest length.
TCap == 16

\* Number of records written into a buffer of TCap bytes.
MaxRecs == 2

\* The capacities: no room for a tag of two bytes, TCap, and room for a
\* record whose value has the greatest length of a one-byte and of a
\* two-byte length field.
TlvCaps == {1, TCap, Lim8 + 1 + TCap, Lim16 + 1 + TCap}

\* The widths N of write_tlvN and read_tlvN.
Widths == {8, 16, 32}

\* The tags: one, two and five bytes long (0x01, 0x1234 of the tests and
\* u32::MAX).
TlvTags == {U32(0, 1), U32(0, 4660), U32(65535, 65535)}

\* The greatest length of a length field of the given width that is held
\* as a number here; a 32-bit field holds every length.
Limit(width) == IF width = 8 THEN Lim8 ELSE Lim16

\* The values: empty, two bytes with a zero, and for a field of 8 or 16
\* bits one of the greatest length, when the buffer can hold it, and one
\* that is one byte longer.
TlvValues(width, cap) ==
    {<<>>, <<7, 0>>}
        \cup (IF width = 32 THEN {}
              ELSE {Fill(Limit(width) + 1, 7)}
                       \cup (IF cap > Limit(width)
                             THEN {Fill(Limit(width), 7)}
                             ELSE {}))

\* The addresses: one byte, and one byte too long for the length field.
TlvAddrs(width) ==
    {<<9>>} \cup (IF width = 32 THEN {} ELSE {Fill(Limit(width) + 1, 9)})

\* The number of writes made into a buffer of the given capacity.
RecsFor(cap) == IF cap = TCap THEN MaxRecs ELSE 1

TlvInit ==
    /\ t_pc = "write"
    /\ t_width \in Widths
    /\ \E cap \in TlvCaps : tw = TlvWriter_new(Fill(cap, 255))
    /\ t_wret = TlvNoCall
    /\ t_items = <<>>
    /\ tr = TlvReader_new(<<>>)
    /\ t_reads = <<>>
    /\ overflow_checks \in BOOLEAN
    /\ LebUnused
    /\ CodecIdle
    /\ StreamIdle
    /\ SctlIdle

\* What a write leaves behind: the Writer, the call and its result, and
\* the record when the call succeeded.  A failed call ends the writing, a
\* panic the program.
TlvWrote(op, addr, tag, value, res) ==
    /\ tw' = res.w
    /\ t_wret' = [kind |-> res.kind, err |-> res.err, n |-> res.n,
                  calls |-> t_wret.calls + 1, op |-> op, tag |-> tag,
                  alen |-> Len(addr), vlen |-> Len(value),
                  pre |-> [pos |-> tw.pos, ref |-> TlvWriter_as_ref(tw)]]
    /\ t_items' = IF res.kind = "Ok"
                  THEN Append(t_items,
                              [op |-> op, addr |-> addr, tag |-> tag,
                               value |-> value, from |-> tw.pos,
                               to |-> res.w.pos])
                  ELSE t_items
    /\ t_pc' = CASE res.kind = "Ok" -> "write"
                 [] res.kind = "Err" -> "failed"
                 [] OTHER -> "panicked"
    /\ UNCHANGED <<t_width, tr, t_reads, codec_vars, stream_vars, leb_vars,
                   sctl_vars>>

CanWrite ==
    /\ t_pc = "write"
    /\ t_wret.calls < RecsFor(Len(tw.buf))

\* tw.write_tag(tag)
TlvWriteTag ==
    /\ CanWrite
    /\ \E tag \in TlvTags :
          TlvWrote("tag", <<>>, tag, <<>>, write_tag(tw, tag))

\* tw.write_lvN(value)
TlvWriteLv ==
    /\ CanWrite
    /\ \E value \in TlvValues(t_width, Len(tw.buf)) :
          TlvWrote("lv", <<>>, Zero32, value, write_lvN(t_width, tw, value))

\* tw.write_tlvN(tag, value)
TlvWriteTlv ==
    /\ CanWrite
    /\ \E tag \in TlvTags, value \in TlvValues(t_width, Len(tw.buf)) :
          TlvWrote("tlv", <<>>, tag, value,
                   write_tlvN(t_width, tw, tag, value))

\* tw.write_atlvN(addr, tag, value)
TlvWriteAtlv ==
    /\ CanWrite
    /\ \E addr \in TlvAddrs(t_width), tag \in TlvTags,
          value \in TlvValues(t_width, Len(tw.buf)) :
          TlvWrote("atlv", addr, tag, value,
                   write_atlvN(t_width, tw, addr, tag, value))

\* The lengths of the Reader's buffer: all that was written, or a prefix
\* that ends in the last record: in the fields before its value, in the
\* first bytes of the value or one byte before its end.
Cuts ==
    LET last == t_items[Len(t_items)]
        value_at == last.to - Len(last.value)
    IN  {k \in last.from..last.to : k <= value_at + 1 \/ k >= last.to - 1}

\* Reader::new(&tw.as_ref()[..cut])
TlvStartRead ==
    /\ t_pc = "write"
    /\ t_items # <<>>
    /\ \E cut \in Cuts : tr' = TlvReader_new(Slice(tw.buf, 0, cut))
    /\ t_pc' = "read"
    /\ UNCHANGED <<t_width, tw, t_wret, t_items, t_reads, codec_vars,
                   stream_vars, leb_vars, sctl_vars>>

\* The destination of a read: as long as the Writer's buffer.
TlvDst == Fill(Len(tw.buf), 0)

\* What a read leaves behind.  The caller stops at the first call that
\* does not return a record.
TlvReadDone(op, res) ==
    /\ tr' = res.r
    /\ t_reads' = Append(t_reads,
                         [op |-> op, kind |-> res.kind, err |-> res.err,
                          addr |-> res.addr, tag |-> res.v, msg |-> res.msg,
                          from |-> tr.pos, to |-> res.r.pos])
    /\ t_pc' = IF res.kind = "Some" THEN "read" ELSE "done"
    /\ UNCHANGED <<t_width, tw, t_wret, t_items, codec_vars, stream_vars,
                   leb_vars, sctl_vars>>

\* The call that reads the next record is the one that matches its write.
NextIs(op) ==
    /\ t_pc = "read"
    /\ Len(t_reads) < Len(t_items)
    /\ t_items[Len(t_reads) + 1].op = op

\* tr.read_tag()
TlvReadTag ==
    /\ NextIs("tag")
    /\ TlvReadDone("tag", read_tag(tr, overflow_checks))

\* tr.read_lvN(dst)
TlvReadLv ==
    /\ NextIs("lv")
    /\ TlvReadDone("lv", read_lvN(t_width, tr, TlvDst))

\* tr.read_lvN(&mut [0u8; 1]): a destination that holds no value of two
\* bytes or more
TlvReadLvShort ==
    /\ NextIs("lv")
    /\ TlvReadDone("lv", read_lvN(t_width, tr, Fill(1, 0)))

\* tr.read_tlvN(dst)
TlvReadTlv ==
    /\ NextIs("tlv")
    /\ TlvReadDone("tlv", read_tlvN(t_width, tr, TlvDst, overflow_checks))

\* tr.read_atlvN(adst, dst)
TlvReadAtlv ==
    /\ NextIs("atlv")
    /\ TlvReadDone("atlv",
                   read_atlvN(t_width, tr, TlvDst, TlvDst, overflow_checks))

TlvNext ==
    \/ TlvWriteTag
    \/ TlvWriteLv
    \/ TlvWriteTlv
    \/ TlvWriteAtlv
    \/ TlvStartRead
    \/ TlvReadTag
    \/ TlvReadLv
    \/ TlvReadLvShort
    \/ TlvReadTlv
    \/ TlvReadAtlv

SpecTlv == TlvInit /\ [][TlvNext]_vars

-----------------------------------------------------------------------------
(* Properties of the TLV codec (SpecTlv)                                   *)

\* The Reader's buffer holds the whole of record j.
HoldsRecord(j) == Len(tr.buf) >= t_items[j].to

\* Read j is the call that matches the write of record j and starts where
\* the record starts.
Matches(j) ==
    /\ t_reads[j].op = t_items[j].op
    /\ t_reads[j].from = t_items[j].from

\* C14: records written by successful write_tlvN or write_atlvN calls are
\* read back by read_tlvN or read_atlvN, with destinations that are large
\* enough, as the same tag, value and address, in the order written.
C14_TlvRoundTrip ==
    \A j \in 1..Len(t_reads) :
        (t_items[j].op \in {"tlv", "atlv"} /\ HoldsRecord(j)) =>
            /\ Matches(j)
            /\ t_reads[j].kind = "Some"
            /\ t_reads[j].tag = t_items[j].tag
            /\ t_reads[j].msg = t_items[j].value
            /\ t_reads[j].addr = t_items[j].addr
            /\ t_reads[j].to = t_items[j].to

\* A record with a tag of two bytes and one with an address and a tag of
\* five bytes were written with 16-bit length fields and read back in that
\* order.
C14_Witness ==
    /\ t_width = 16
    /\ Len(t_reads) = 2
    /\ t_items[1].op = "tlv"
    /\ t_items[1].tag = U32(0, 4660)
    /\ t_items[1].value = <<7, 0>>
    /\ t_items[2].op = "atlv"
    /\ t_items[2].tag = U32(65535, 65535)
    /\ t_reads[2].kind = "Some"
    /\ t_reads[2].addr = <<9>>

\* C15: when the Reader's buffer ends inside a record, read_tlvN and
\* read_atlvN return Ok(None) and leave pos() unchanged.
C15_PartialRecordIsNoOp ==
    \A j \in 1..Len(t_reads) :
        (t_items[j].op \in {"tlv", "atlv"} /\ ~HoldsRecord(j)) =>
            (t_reads[j].kind = "None" /\ t_reads[j].to = t_reads[j].from)

\* The last call was one that writes a length field of 8 or 16 bits.
WroteLength ==
    /\ t_wret.op \in {"lv", "tlv", "atlv"}
    /\ t_width \in {8, 16}

\* The address or the value of the last call is too long for the field.
TooLong == t_wret.alen > Limit(t_width) \/ t_wret.vlen > Limit(t_width)

OutOfRange == t_wret.kind = "Err" /\ t_wret.err = "OutOfRange"

\* The number of bytes of the tag of the last call.
TagLen == IF t_wret.op = "lv" THEN 0 ELSE CanonicalLen(t_wret.tag)

\* The number of bytes that the last call writes before it comes to the
\* check of the value's length: the tag, after the address field if any.
BeforeValue ==
    TagLen + (IF t_wret.op = "atlv" THEN (t_width \div 8) + t_wret.alen
              ELSE 0)

\* The number of bytes of the record of the last call.
RecordLen == BeforeValue + (t_width \div 8) + t_wret.vlen

\* The room in the Writer before the last call.
RoomBefore == Len(tw.buf) - t_wret.pre.pos

\* C16 as stated: a write of a record with an 8-bit or 16-bit length field
\* returns Err(OutOfRange) exactly when the value or the address is longer
\* than 255 or 65535 bytes, and accepts a value of that length when the
\* buffer has room.
C16_OutOfRangeExactly ==
    WroteLength =>
        /\ OutOfRange <=> TooLong
        /\ (~TooLong /\ RoomBefore >= RecordLen) => t_wret.kind = "Ok"

\* C16: write_lvN returns Err(OutOfRange) exactly when the value is too
\* long.  write_tlvN and write_atlvN fail whenever the value or the
\* address is too long and return Err(OutOfRange) only then: with
\* OutOfRange when the address is too long, or the value is and the fields
\* before its length fit in the buffer, with BufferTooShort otherwise.  A
\* record whose lengths are within the limit is accepted when the buffer
\* has room.
C16_LengthRange ==
    WroteLength =>
        /\ OutOfRange => TooLong
        /\ TooLong => t_wret.kind = "Err"
        /\ t_wret.op = "lv" => (OutOfRange <=> TooLong)
        /\ t_wret.alen > Limit(t_width) => OutOfRange
        /\ TooLong =>
               (OutOfRange <=> (\/ t_wret.alen > Limit(t_width)
                                \/ RoomBefore >= BeforeValue))
        /\ (~TooLong /\ RoomBefore >= RecordLen) => t_wret.kind = "Ok"

\* write_tlv8 has accepted a value of 255 bytes.
C16_Witness ==
    /\ t_width = 8
    /\ t_wret.op = "tlv"
    /\ t_wret.vlen = Lim8
    /\ t_wret.kind = "Ok"

\* C17: a Writer call that returns an error leaves pos() and as_ref() as
\* they were before the call.
C17_FailedWriteIsNoOp ==
    t_wret.kind = "Err" =>
        /\ tw.pos = t_wret.pre.pos
        /\ TlvWriter_as_ref(tw) = t_wret.pre.ref

-----------------------------------------------------------------------------
(* The control-protocol harness: messages are written with an              *)
(* sctl::Writer until a call fails; an sctl::Reader then reads the         *)
(* Writer's bytes, directly or after they have travelled as one frame      *)
(* through a cobs::Reader.  A Reader is also put over bytes that no Writer *)
(* produced.                                                               *)

\* Capacity of the sctl::Writer's buffer when it is not sized for a
\* payload of 255 bytes: Boot("Hello, World") and Exit fill it.
SCap == 17

\* Number of messages written into a buffer of SCap bytes.
MaxMsgs == 2

\* Longest buffer of bytes that no Writer produced.
SRawLen == 3

SctlCaps == {SCap, Lim8 + 2 + SCap}

\* b"Hello, World"
HelloWorld == <<72, 101, 108, 108, 111, 44, 32, 87, 111, 114, 108, 100>>

\* The payloads: empty, the one of the tests and, when the buffer can hold
\* it, one of 255 bytes.
Payloads8(cap) ==
    {<<>>, HelloWorld} \cup (IF cap > Lim8 THEN {Fill(Lim8, 65)} ELSE {})

\* The status bytes of Exit.
ExitCodes == {0, 85}

Messages(cap) ==
    {Message(name, value) : name \in TagNames \ {"Exit"},
                            value \in Payloads8(cap)}
        \cup {MessageExit(code) : code \in ExitCodes}

MsgsFor(cap) == IF cap = SCap THEN MaxMsgs ELSE 1

\* The length of the destination handed to Reader::read
TmpLen == 2^8

\* The bytes the raw buffers are made of: the tags of Boot and Exit (also
\* the lengths 1 and 3), a tag outside the table, a zero and a
\* continuation byte.
RawRecordBytes == {0, 1, 3, 51, 128}

RECURSIVE RawSeqs(_)
RawSeqs(n) ==
    IF n = 0 THEN {<<>>}
    ELSE LET shorter == RawSeqs(n - 1)
         IN  shorter \cup {Append(s, b) : s \in shorter, b \in RawRecordBytes}

\* The raw buffers, with a record whose tag takes six bytes.
RawRecords == RawSeqs(SRawLen) \cup {<<128, 128, 128, 128, 128, 1, 0>>}

SctlInit ==
    /\ x_pc = "write"
    /\ \E cap \in SctlCaps : xw = SctlWriter_new(Fill(cap, 0))
    /\ x_wret = NoCall
    /\ x_sent = <<>>
    /\ x_frame = NoCall
    /\ x_via = "none"
    /\ xr = SctlReader_new(<<>>)
    /\ x_out = <<>>
    /\ overflow_checks \in BOOLEAN
    /\ LebUnused
    /\ CodecIdle
    /\ StreamIdle
    /\ TlvIdle

\* xw.boot(value), xw.run(value), xw.exit(code), ...  A failed call ends
\* the writing.
SctlSend ==
    /\ x_pc = "write"
    /\ x_wret.calls < MsgsFor(Len(xw.buf))
    /\ \E m \in Messages(Len(xw.buf)) :
          \E res \in {send(xw, m)} :
              /\ xw' = res.w
              /\ x_wret' = [kind |-> res.kind, err |-> res.err, n |-> res.n,
                            calls |-> x_wret.calls + 1]
              /\ x_sent' = IF res.kind = "Ok" THEN Append(x_sent, m)
                           ELSE x_sent
              /\ x_pc' = IF res.kind = "Ok" THEN "write" ELSE "failed"
    /\ UNCHANGED <<x_frame, x_via, xr, x_out, codec_vars, stream_vars,
                   leb_vars, tlv_vars>>

\* Reader::new(xw.as_ref())
SctlOpen ==
    /\ x_pc = "write"
    /\ xr' = SctlReader_new(SctlWriter_as_ref(xw))
    /\ x_via' = "direct"
    /\ x_pc' = "read"
    /\ UNCHANGED <<xw, x_wret, x_sent, x_frame, x_out, codec_vars,
                   stream_vars, leb_vars, tlv_vars>>

\* The destinations of encode: room for the frame, or DstShort bytes.
FrameDsts(cap) == {cap + 3, DstShort}

\* The destinations around the length of the frame of records shorter
\* than 254 bytes: one byte short of the frame, and the frame exactly.
TightDsts(wr) == {wr.pos + 1, wr.pos + 2}

\* xw.encode(&mut dst)
SctlEncode ==
    /\ x_pc = "write"
    /\ x_sent # <<>>
    /\ \E dlen \in FrameDsts(Len(xw.buf)) \cup TightDsts(xw) :
          LET res == sctl_encode(xw, Fill(dlen, 0))
          IN  /\ xw' = res.w
              /\ x_frame' = [kind |-> res.kind, err |-> res.err,
                             out |-> res.out, calls |-> 1]
    /\ x_pc' = "encoded"
    /\ UNCHANGED <<x_wret, x_sent, x_via, xr, x_out, codec_vars, stream_vars,
                   leb_vars, tlv_vars>>

\* The caller goes on with the same Writer after encode returned: the
\* records of a frame that was built are sent, those of a failed encode
\* are still to be sent.
SctlResume ==
    /\ x_pc = "encoded"
    /\ x_sent' = IF x_frame.kind = "Ok" THEN <<>> ELSE x_sent
    /\ x_pc' = "write"
    /\ UNCHANGED <<xw, x_wret, x_frame, x_via, xr, x_out, codec_vars,
                   stream_vars, leb_vars, tlv_vars>>

\* The frame is copied into the buffer of a cobs::Reader, which is
\* extended by the frame's length; decode_packet yields the bytes an
\* sctl::Reader is then put over.
SctlDeliver ==
    /\ x_pc = "encoded"
    /\ x_frame.kind = "Ok"
    /\ LET frame == x_frame.out
           rd == Reader_extend(
                     Reader_new(frame \o Fill(RSlack, 0)), Len(frame))
           res == decode_packet(rd, Fill(Len(frame), 0))
       IN  IF res.kind = "Some"
           THEN /\ xr' = SctlReader_new(Slice(res.dst, 0, res.n))
                /\ x_via' = "frame"
                /\ x_pc' = "read"
           ELSE /\ x_pc' = "lost"
                /\ UNCHANGED <<xr, x_via>>
    /\ UNCHANGED <<xw, x_wret, x_sent, x_frame, x_out, codec_vars,
                   stream_vars, leb_vars, tlv_vars>>

\* Reader::new(buf) over bytes from an untrusted peer
SctlOpenRaw ==
    /\ x_pc = "write"
    /\ x_wret.calls = 0
    /\ Len(xw.buf) = SCap
    /\ \E buf \in RawRecords : xr' = SctlReader_new(buf)
    /\ x_via' = "raw"
    /\ x_pc' = "read"
    /\ UNCHANGED <<xw, x_wret, x_sent, x_frame, x_out, codec_vars,
                   stream_vars, leb_vars, tlv_vars>>

\* xr.read(&mut tmp[..]).  The caller stops at the first call that does
\* not return a message; a panic ends the program.
SctlReadMsg ==
    /\ x_pc = "read"
    /\ \E res \in {sctl_read(xr, Fill(TmpLen, 0), overflow_checks)} :
           /\ xr' = res.r
           /\ x_out' = Append(x_out, [kind |-> res.kind, err |-> res.err,
                                      msg |-> res.msg])
           /\ x_pc' = CASE res.kind = "Some" -> "read"
                        [] res.kind = "Panic" -> "panicked"
                        [] OTHER -> "done"
    /\ UNCHANGED <<xw, x_wret, x_sent, x_frame, x_via, codec_vars,
                   stream_vars, leb_vars, tlv_vars>>

SctlNext ==
    \/ SctlSend
    \/ SctlOpen
    \/ SctlEncode
    \/ SctlDeliver
    \/ SctlOpenRaw
    \/ SctlReadMsg

SpecSctl == SctlInit /\ [][SctlNext]_vars

-----------------------------------------------------------------------------
(* Properties of the control protocol (SpecSctl)                           *)

\* Ok(Some(m))
Returned(m) == [kind |-> "Some", err |-> "", msg |-> m]

\* The calls of Reader::read made so far returned the messages written,
\* in the order written, and the call after the last returned Ok(None).
ReadBack ==
    /\ Len(x_out) <= Len(x_sent) + 1
    /\ \A j \in 1..Len(x_out) :
           IF j <= Len(x_sent)
           THEN x_out[j] = Returned(x_sent[j])
           ELSE x_out[j].kind = "None"

\* C18: an sctl::Reader over the as_ref() of a Writer returns, call by
\* call, the messages of the successful Writer calls, with equal payloads
\* and the same status byte, in the order written, and then Ok(None).
C18_MessageRoundTrip == x_via = "direct" => ReadBack

\* Stdout("Hello, World") and Exit(0x55) were written and read back, and
\* the third call returned Ok(None).
C18_Witness ==
    /\ x_via = "direct"
    /\ x_sent = <<Message("Stdout", HelloWorld), MessageExit(85)>>
    /\ Len(x_out) = 3
    /\ x_out[2] = Returned(MessageExit(85))
    /\ x_out[3].kind = "None"

\* The number of bytes of the Reader's buffer that no call has consumed.
Unread == Len(xr.buf) - xr.pos

\* C19: the messages that travelled as one frame through encode and the
\* cobs::Reader are read back in the order written, Boot("Hello, World")
\* and Exit(0x55) among them, and remaining() is the number of unread
\* bytes after every read: 0 after the last.
C19_EndToEnd ==
    x_via = "frame" =>
        /\ ReadBack
        /\ SctlReader_remaining(xr, overflow_checks)
               = [kind |-> "Ok", n |-> Unread]

\* C20: Reader::read returns Ok(Some(message)), Ok(None) or Err for every
\* buffer, and never faults.
C20_NoFault ==
    \A j \in 1..Len(x_out) : x_out[j].kind \in {"Some", "None", "Err"}

-----------------------------------------------------------------------------
(* The reference encoding and the sizes of the codec (SpecCodec)           *)

\* The number of non-zero bytes s starts with, counted up to 254.
LeadingRun(s) ==
    LET stops == {i \in 1..Len(s) : s[i] = 0 \/ i = 255}
    IN  IF stops = {} THEN Len(s)
        ELSE (CHOOSE i \in stops : \A j \in stops : i <= j) - 1

\* Consistent Overhead Byte Stuffing of s: a header of 1 + the number of
\* non-zero bytes up to the next zero, which the header stands for, or
\* a header of 0xFF and 254 bytes; the last group is closed by its header
\* even when it is empty.
RECURSIVE cobs_encode(_)
cobs_encode(s) ==
    LET k == LeadingRun(s)
    IN  IF k = 254
        THEN <<255>> \o SubSeq(s, 1, 254) \o cobs_encode(SubSeq(s, 255, Len(s)))
        ELSE IF k = Len(s)
             THEN <<k + 1>> \o s
             ELSE <<k + 1>> \o SubSeq(s, 1, k)
                      \o cobs_encode(SubSeq(s, k + 2, Len(s)))

\* The encodings the tests and the specification give.
Known ==
    { [u |-> <<>>, e |-> <<1>>],
      [u |-> <<0>>, e |-> <<1, 1>>],
      [u |-> <<17, 34, 0, 51>>, e |-> <<3, 17, 34, 2, 51>>],
      [u |-> <<17, 34, 51, 68>>, e |-> <<5, 17, 34, 51, 68>>],
      [u |-> <<17, 0, 0, 0>>, e |-> <<2, 17, 1, 1, 1>>] }

\* encode has returned Ok(n).
Encoded == c_pc \in {"encoded", "decoded"} /\ c_enc.kind = "Ok"

\* The first n bytes of dst.
EncodedBytes == Slice(c_enc.dst, 0, c_enc.n)

\* C23: when encode returns Ok(n), the first n bytes of dst are the
\* Consistent Overhead Byte Stuffing of the input, group by group, and n
\* is its length; the inputs of the tests get the encodings the tests give.
C23_ReferenceEncoding ==
    Encoded =>
        /\ EncodedBytes = cobs_encode(c_src)
        /\ c_enc.n = Len(cobs_encode(c_src))
        /\ \A v \in Known : c_src = v.u => EncodedBytes = v.e

\* [11,00,00,00] has been encoded as [02,11,01,01,01].
C23_Witness ==
    /\ Encoded
    /\ c_src = <<17, 0, 0, 0>>
    /\ c_enc.n = 5
    /\ EncodedBytes = <<2, 17, 1, 1, 1>>

\* ceil(a / b)
CeilDiv(a, b) == (a + b - 1) \div b

\* C24: the length n returned by encode is at least 1 and at most
\* s.len() + ceil((s.len() + 1) / 254); 254 non-zero bytes take 256 bytes
\* and 253 non-zero bytes take 254.
C24_OverheadBound ==
    Encoded =>
        /\ 1 <= c_enc.n
        /\ c_enc.n <= Len(c_src) + CeilDiv(Len(c_src) + 1, 254)
        /\ c_src = Run(254) => c_enc.n = 256
        /\ c_src = Run(253) => c_enc.n = 254

\* Two full groups have been encoded: 508 bytes became 511, which is the
\* bound.
C24_Witness ==
    /\ Encoded
    /\ c_src = Run(508)
    /\ c_enc.n = 511
    /\ c_enc.n = Len(c_src) + CeilDiv(Len(c_src) + 1, 254)

\* encode has returned.
EncodeReturned == c_pc \in {"encoded", "decoded"}

\* C26: encode returns Err(DestTooShort) exactly when dst is shorter than
\* the encoding of src, and otherwise Ok(L) with L the encoding's length,
\* L <= dst.len(); it never indexes dst out of range, and on success the
\* bytes of dst from L on are as they were.
C26_EncodeCapacity ==
    EncodeReturned =>
        LET L == Len(cobs_encode(c_src))
            dlen == Len(c_enc.dst)
        IN  /\ c_enc.kind \in {"Ok", "Err"}
            /\ c_enc.kind = "Err" <=> dlen < L
            /\ c_enc.kind = "Err" => c_enc.err = "DestTooShort"
            /\ c_enc.kind = "Ok" =>
                   /\ c_enc.n = L
                   /\ L <= dlen
                   /\ \A i \in L..(dlen - 1) : At(c_enc.dst, i) = 255

\* 254 non-zero bytes were encoded into a destination of 257 bytes: the
\* encoding takes 256, and the last byte is as it was.
C26_Witness ==
    /\ EncodeReturned
    /\ c_enc.kind = "Ok"
    /\ c_src = Run(254)
    /\ Len(c_enc.dst) = 257
    /\ c_enc.n = 256
    /\ At(c_enc.dst, 256) = 255

-----------------------------------------------------------------------------
(* Properties of decode on arbitrary sources (SpecDecode)                  *)

\* What is wrong with the group whose header is at index s, or with the
\* first wrong group after it: a zero for a header, a header that claims
\* more bytes than the source has left, or a zero among the bytes of the
\* group; "none" for a source that ends with a whole group.
RECURSIVE Defect(_, _)
Defect(src, s) ==
    IF s >= Len(src)
    THEN "none"
    ELSE LET code == At(src, s)
         IN  IF code = 0
             THEN "UnexpectedNull"
             ELSE IF code # 1 /\ s + code > Len(src)
                  THEN "SourceTooShort"
                  ELSE IF \E i \in (s + 1)..(s + code - 1) : At(src, i) = 0
                       THEN "UnexpectedNull"
                       ELSE Defect(src, s + code)

\* decode has returned, and the destination had passed the check of its
\* length.
DecodedInto == c_pc = "returned" /\ Len(c_dec.dst) + 1 >= Len(c_src)

\* C25: decode returns Ok only if src holds no zero; the first group that
\* is wrong decides the error: UnexpectedNull for a zero in the place of
\* a header or among the bytes of a group that fits in src (as in
\* [03,11,00]), SourceTooShort for a header other than 1 that claims more
\* bytes than src has left.
C25_ZeroIsCorruption ==
    /\ (c_pc = "returned" /\ c_dec.kind = "Ok") =>
           \A i \in 1..Len(c_src) : c_src[i] # 0
    /\ DecodedInto =>
           /\ Defect(c_src, 0) = "none" <=> c_dec.kind = "Ok"
           /\ Defect(c_src, 0) # "none" =>
                  c_dec.kind = "Err" /\ c_dec.err = Defect(c_src, 0)
           /\ c_src = <<3, 17, 0>> => c_dec.err = "UnexpectedNull"

\* A zero among the 254 bytes of a full group was reported.
C25_Witness ==
    /\ DecodedInto
    /\ Len(c_src) = 255
    /\ c_src[1] = 255
    /\ c_src[102] = 0
    /\ c_dec.kind = "Err"
    /\ c_dec.err = "UnexpectedNull"

\* C27: decode returns Err(DestTooShort) exactly when dst.len() + 1 <
\* src.len(), and dst is then as it was; with a longer dst no index leaves
\* src or dst, whatever src holds, and Ok(n) has n <= src.len() - 1, n = 0
\* for the empty source.
C27_DecodeDestination ==
    c_pc = "returned" =>
        /\ (c_dec.kind = "Err" /\ c_dec.err = "DestTooShort")
               <=> Len(c_dec.dst) + 1 < Len(c_src)
        /\ Len(c_dec.dst) + 1 < Len(c_src) =>
               c_dec.dst = Fill(Len(c_dec.dst), 255)
        /\ c_dec.kind \in {"Ok", "Err"}
        /\ c_dec.kind = "Ok" =>
               c_dec.n <= (IF c_src = <<>> THEN 0 ELSE Len(c_src) - 1)

\* A source of four groups was decoded into a destination one byte
\* shorter, which it fills.
C27_Witness ==
    /\ c_pc = "returned"
    /\ c_src = <<1, 1, 1, 1>>
    /\ Len(c_dec.dst) = 3
    /\ c_dec.kind = "Ok"
    /\ c_dec.n = 3

-----------------------------------------------------------------------------
(* The cursors and the reuse of the streaming Reader (SpecStream)          *)

\* C28: in every state of a Reader reached by extend(n) with n <=
\* remaining(), decode_packet and compact, 0 <= head <= tail <= capacity.
C28_CursorInvariant ==
    /\ 0 <= r.head
    /\ r.head <= r.tail
    /\ r.tail <= Len(r.buf)

\* The Reader was reset by compact: it holds fewer bytes than were fed.
Reused == fed > r.tail

\* A Reader constructed over a buffer that was never used, fed the bytes
\* that r was fed since it was reset, at the same place in them.
FreshReader ==
    [buf |-> Slice(wire, fed - r.tail, fed)
                 \o Fill(Len(r.buf) - r.tail, r_fill),
     head |-> r.head,
     tail |-> r.tail]

\* C29: compact sets head and tail to 0 when head = tail and changes
\* nothing otherwise; and a decode_packet on a Reader that was reset
\* returns what it returns on a Reader over a fresh buffer fed the same
\* bytes, and moves head alike.
C29_CompactionReuse ==
    [][/\ (s_pc = "feed" /\ s_pc' = "feed") =>
              r' = IF r.head = r.tail
                   THEN [r EXCEPT !.head = 0, !.tail = 0]
                   ELSE r
       /\ (s_pc = "drain" /\ Reused) =>
              LET f == decode_packet(FreshReader, r_dst)
              IN  /\ r_ret'.kind = f.kind
                  /\ r_ret'.err = f.err
                  /\ r_ret'.n = f.n
                  /\ r_ret'.data = Slice(f.dst, 0, f.n)
                  /\ r'.head = f.r.head]_vars

-----------------------------------------------------------------------------
(* Faults in the TLV layer (SpecTlv)                                       *)

\* C30: every call on a tlv::Writer or a tlv::Reader returns a result
\* value, whatever the size of the buffers: a read into a destination
\* shorter than the length the record declares, and a write of a 32-bit
\* length with 2 or 3 bytes remaining, return an error or Ok(None).
C30_NoFaultOnShortBuffers ==
    /\ t_wret.kind # "Panic"
    /\ \A j \in 1..Len(t_reads) : t_reads[j].kind # "Panic"

-----------------------------------------------------------------------------
(* The layout of a record (SpecWire: the writing side of the control      *)
(* protocol and of the TLV layer)                                          *)

WireInit == SctlInit \/ TlvInit

\* The calls of the two Writers; the sctl::Writer is used again after
\* encode.
WireNext ==
    \/ SctlSend
    \/ SctlEncode
    \/ SctlResume
    \/ TlvWriteTag
    \/ TlvWriteLv
    \/ TlvWriteTlv
    \/ TlvWriteAtlv

SpecWire == WireInit /\ [][WireNext]_vars

\* The tag numbers of the protocol: Boot=1 ... Set=0x32.
WireTag ==
    [Boot |-> 1, Run |-> 2, Exit |-> 3, Exception |-> 4, Panic |-> 5,
     Stdin |-> 16, Stdout |-> 17, Stderr |-> 18,
     Error |-> 32, Warn |-> 33, Info |-> 34, Debug |-> 35, Trace |-> 36,
     Val |-> 48, Get |-> 49, Set |-> 50]

\* The value of a message on the wire: the status byte for Exit.
WireValue(m) == IF m.name = "Exit" THEN <<m.code>> ELSE m.value

\* n as a big-endian number of the given count of bytes
BigEndianBytes(n, count) ==
    [i \in 1..count |-> (n \div 256^(count - i)) % 256]

\* varint(tag) ++ length byte ++ value
WireRecord(m) ==
    Canonical(U32(0, WireTag[m.name]))
        \o BigEndianBytes(Len(WireValue(m)), 1) \o WireValue(m)

\* record_1 ++ ... ++ record_n
RECURSIVE WireRecords(_)
WireRecords(ms) ==
    IF ms = <<>> THEN <<>>
    ELSE WireRecord(Head(ms)) \o WireRecords(Tail(ms))

\* The sctl::Writer holds the records of the successful calls and nothing
\* else, and the last call returned the length of its record.
SctlLayout ==
    x_pc \in {"write", "failed"} =>
        /\ SctlWriter_as_ref(xw) = WireRecords(x_sent)
        /\ (x_wret.kind = "Ok" /\ x_sent # <<>>) =>
               x_wret.n = Len(WireRecord(x_sent[Len(x_sent)]))

\* The records write_tlvN wrote: pos moved by the length of the tag's
\* varint, N/8 and the value's length, and the bytes written are the
\* varint, the length with its high byte first and the value.
TlvLayout ==
    \A j \in 1..Len(t_items) :
        t_items[j].op = "tlv" =>
            LET it == t_items[j]
                field == t_width \div 8
            IN  /\ it.to - it.from
                       = CanonicalLen(it.tag) + field + Len(it.value)
                /\ Slice(tw.buf, it.from, it.to)
                       = Canonical(it.tag)
                             \o BigEndianBytes(Len(it.value), field)
                             \o it.value

\* C22: each successful message call of sctl::Writer appends varint(tag),
\* one length byte and the value, and returns that count of bytes, the
\* tags being Boot=1 ... Set=0x32; write_tlvN advances pos by
\* varint_len(tag) + N/8 + value.len() and stores the length big-endian.
C22_RecordLayout == SctlLayout /\ TlvLayout

\* Stdout("Hello, World") and Exit(0x55) are in the Writer: 14 and 3
\* bytes, the second call returned 3.
C22_Witness ==
    /\ x_pc = "write"
    /\ x_sent = <<Message("Stdout", HelloWorld), MessageExit(85)>>
    /\ SctlWriter_as_ref(xw) = <<17, 12>> \o HelloWorld \o <<3, 1, 85>>
    /\ x_wret.kind = "Ok"
    /\ x_wret.n = 3

-----------------------------------------------------------------------------
(* The frame of the control Writer (SpecWire)                              *)

\* C21: a successful Writer::encode(dst) returns cobs_encode(record_1 ++
\* ... ++ record_n) ++ 0x00 of the records appended since the previous
\* successful encode and leaves as_ref() empty, so that later records
\* start a new frame; a failed encode leaves the accumulated records as
\* they were.
C21_EncodeFlush ==
    x_pc = "encoded" =>
        /\ x_frame.kind \in {"Ok", "Err"}
        /\ x_frame.kind = "Ok" =>
               /\ x_frame.out = cobs_encode(WireRecords(x_sent)) \o <<0>>
               /\ SctlWriter_as_ref(xw) = <<>>
        /\ x_frame.kind = "Err" =>
               SctlWriter_as_ref(xw) = WireRecords(x_sent)

\* Exit(0x55) was framed alone, the record written before it having gone
\* out in an earlier frame.
C21_Witness ==
    /\ x_pc = "encoded"
    /\ x_wret.calls = 2
    /\ x_sent = <<MessageExit(85)>>
    /\ x_frame.kind = "Ok"
    /\ x_frame.out = <<4, 3, 1, 85, 0>>
    /\ xw.pos = 0
    /\ xw.buf[1] = 3

====
